---------------------------- MODULE Spec2Model ----------------------------
(***************************************************************************)
(* A model of astrobase/awsutils.py: the S3, SQS, EC2 and spot-fleet       *)
(* helper functions.  The control plane is single-threaded: `pc` says      *)
(* which function is executing and where; every provider call (boto3       *)
(* client method) is a step whose response is chosen nondeterministically. *)
(***************************************************************************)
EXTENDS Integers, Sequences, FiniteSets, TLC

(***************************************************************************)
(* Bounds of the model.                                                    *)
(***************************************************************************)
MaxInstances == 2      \* largest launch_instances passed to make_ec2_nodes
MaxPolls == 7          \* describe_instances polls explored in one call
MaxTypes == 2          \* longest instance_types / instance_weights list
MaxItems == 2          \* largest max_items passed to sqs_get_item
MaxSends == 1          \* messages sent to the queue in one run
MaxReceives == 2       \* deliveries of one message
MaxAltexts == 2        \* longest altexts list

(***************************************************************************)
(* Program constants.                                                      *)
(***************************************************************************)
ntries_ec2 == 5        \* make_ec2_nodes: ntries
sleep_ec2 == 5         \* make_ec2_nodes: time.sleep(5.0)
ntries_fleet == 10     \* make_spot_fleet_cluster: ntries
sleep_fleet == 15      \* make_spot_fleet_cluster: time.sleep(15.0)

VARIABLES
    pc,                \* control location of the executing function
    op,                \* the current (or last) invocation: name and arguments
    calls,             \* provider calls and sleeps issued by this invocation
    result,            \* outcome of the invocation
    hist,              \* observations about this invocation (history only)
    instance_dict,     \* make_ec2_nodes: instance_dict
    ready_instances,   \* make_ec2_nodes: ready_instances
    curr_try,          \* make_ec2_nodes / make_spot_fleet_cluster: curr_try
    ec2_provider,      \* provider side: state of each launched instance
    SPOT_FLEET_CONFIG,        \* module global: top level of the fleet template
    SPOT_PERINSTANCE_CONFIG,  \* module global: top level of the per-instance
                              \* template; nested objects are references
    heap,              \* the objects nested in SPOT_PERINSTANCE_CONFIG
    spot_fleet_reqid,  \* make_spot_fleet_cluster: spot_fleet_reqid
    queue_exists,      \* queue service: the queue has been created
    queue,             \* queue service: the stored messages, oldest first
    next_id,           \* queue service: id of the next message
    enqueued,          \* history: the items sqs_put_item put on the queue
    acked,             \* history: ids of the messages acknowledged with the
                       \* receipt handle of their latest delivery
    held,              \* queue service: ids of the delivered messages whose
                       \* visibility window (the queue's VisibilityTimeout)
                       \* has not elapsed
    service,           \* the service whose client this run holds
    worker             \* a worker process: the job it holds and how far it
                       \* has got with it

vars_ec2 == <<instance_dict, ready_instances, curr_try, ec2_provider>>

vars_globals == <<SPOT_FLEET_CONFIG, SPOT_PERINSTANCE_CONFIG, heap>>

vars_sqs == <<queue_exists, queue, next_id, enqueued, acked, held>>

vars == <<pc, op, calls, result, hist, vars_ec2, vars_globals,
          spot_fleet_reqid, vars_sqs, service, worker>>

(***************************************************************************)
(* Outcomes of a call: a returned value (None or a value) or a raised      *)
(* exception.                                                              *)
(***************************************************************************)
Running == [kind |-> "running"]
ReturnNone == [kind |-> "return", none |-> TRUE]
Return(v) == [kind |-> "return", none |-> FALSE, val |-> v]
Raise(e) == [kind |-> "raise", exc |-> e]

\* boto3.client('s3' | 'sqs' | 'ec2'); the functions of one service share
\* no state with those of another, so a run exercises one of them
Services == {"s3", "sqs", "ec2", "fleet"}

\* a worker process holds a queue client and an object-store client of its
\* own
HasClient(s) ==
    \/ service = s
    \/ service = "worker" /\ s \in {"s3", "sqs"}

\* the failures a boto3 client method can raise
ProviderErrors == {"ClientError", "ConnectionError"}

NoHist == [provider_failed |-> FALSE, failure |-> "", first_all_up |-> FALSE,
           submitted |-> FALSE, active_seen |-> FALSE, received |-> FALSE,
           batch |-> <<>>, repeat |-> FALSE, served |-> <<>>]

\* sequence of the elements of a finite set of integers, ascending
RECURSIVE SortedSeq(_)
SortedSeq(S) ==
    IF S = {} THEN <<>>
    ELSE LET m == CHOOSE x \in S : \A y \in S : x <= y
         IN <<m>> \o SortedSeq(S \ {m})

CountCalls(m) == Cardinality({i \in 1..Len(calls) : calls[i].method = m})

(***************************************************************************)
(* except ClientError / except Exception: log, re-raise when raiseonfail,  *)
(* else return None.  (OnException_Swallow: a handler that ignores         *)
(* raiseonfail.)                                                           *)
(* (OnException_Raise: a handler that re-raises whatever raiseonfail is.)  *)
(* (OnException_TypedClientError: a handler that always re-raises the      *)
(* provider's ClientError.)                                                *)
(***************************************************************************)
OnException_Swallow(raiseonfail, e) == ReturnNone

OnException_TypedClientError(raiseonfail, e) ==
    IF raiseonfail \/ e = "ClientError" THEN Raise(e) ELSE ReturnNone

OnException_Raise(raiseonfail, e) == Raise(e)

OnException(raiseonfail, e) == IF raiseonfail THEN Raise(e) ELSE ReturnNone

(***************************************************************************)
(* EC2: make_ec2_nodes                                                     *)
(***************************************************************************)
InstanceStates == <<"pending", "running", "shutting-down", "terminated">>

StateRank(s) == CHOOSE i \in 1..Len(InstanceStates) : InstanceStates[i] = s

\* user data: None, an inline script, or the path of an existing file
UserDataInputs == {[kind |-> "none"],
                   [kind |-> "text", text |-> <<104, 105>>],
                   [kind |-> "file", contents |-> <<102, 111, 111>>]}

\* the generated stub: a fixed text followed by the UTC launch time
DefaultStub(utcnow) == <<35, 33>> \o <<utcnow>>

\* make_ec2_nodes: the text sent as UserData, raw
udata_ec2(user_data, utcnow) ==
    CASE user_data.kind = "file" -> user_data.contents
      [] user_data.kind = "text" -> user_data.text
      [] OTHER -> DefaultStub(utcnow)

\* a launch request that accepts any number of instances from 1 up
RunInstancesRequest_MinOne(a) ==
    [method |-> "run_instances",
     ImageId |-> a.ami,
     InstanceType |-> a.instance,
     SecurityGroupIds |-> <<a.security_groupid>>,
     SubnetId |-> a.subnet_id,
     UserData |-> udata_ec2(a.user_data, a.utcnow),
     IamInstanceProfile |-> [Arn |-> a.iam_instance_profile_arn],
     InstanceInitiatedShutdownBehavior |-> "terminate",
     KeyName |-> a.keypair_name,
     MaxCount |-> a.launch_instances,
     MinCount |-> 1,
     EbsOptimized |-> a.ebs_optimized]

RunInstancesRequest(a) ==
    [method |-> "run_instances",
     ImageId |-> a.ami,
     InstanceType |-> a.instance,
     SecurityGroupIds |-> <<a.security_groupid>>,
     SubnetId |-> a.subnet_id,
     UserData |-> udata_ec2(a.user_data, a.utcnow),
     IamInstanceProfile |-> [Arn |-> a.iam_instance_profile_arn],
     InstanceInitiatedShutdownBehavior |-> "terminate",
     KeyName |-> a.keypair_name,
     MaxCount |-> a.launch_instances,
     MinCount |-> a.launch_instances,
     EbsOptimized |-> a.ebs_optimized]

Sleep(secs) == [method |-> "sleep", secs |-> secs]

\* the instance_dict built from the Instances list of the launch response
LaunchedDict(ids) ==
    [i \in ids |-> [type |-> "t3.micro", state |-> "pending", ip |-> 0]]

\* while (curr_try < ntries) or (len(ready_instances) < len(instance_dict))
EC2LoopCond ==
    (curr_try < ntries_ec2) \/
    (Len(ready_instances) < Cardinality(DOMAIN instance_dict))

\* the arguments of a make_ec2_nodes call
EC2Args ==
    [name : {"make_ec2_nodes"},
     security_groupid : {"sg-a"},
     subnet_id : {"subnet-a"},
     keypair_name : {"key-a"},
     iam_instance_profile_arn : {"arn-a"},
     launch_instances : 1..MaxInstances,
     ami : {"ami-04681a1dbd79675a5"},
     instance : {"t3.micro"},
     ebs_optimized : {TRUE},
     user_data : UserDataInputs,
     utcnow : {1},
     wait_until_up : BOOLEAN,
     raiseonfail : BOOLEAN]

\* make_ec2_nodes up to the start of the wait loop: run_instances and the
\* construction of instance_dict
make_ec2_nodes ==
    /\ pc = "idle"
    /\ service = "ec2"
    /\ UNCHANGED <<service, worker>>
    /\ UNCHANGED <<vars_globals, spot_fleet_reqid, vars_sqs>>
    /\ \E a \in EC2Args :
         /\ op' = a
         /\ calls' = <<RunInstancesRequest(a)>>
         /\ \/ \* run_instances raises
               \E e \in ProviderErrors :
                 /\ result' = OnException(a.raiseonfail, e)
                 /\ hist' = [NoHist EXCEPT !.provider_failed = TRUE,
                                           !.failure = e]
                 /\ pc' = "done"
                 /\ UNCHANGED vars_ec2
            \/ \* an empty response
               /\ result' = ReturnNone
               /\ hist' = NoHist
               /\ pc' = "done"
               /\ UNCHANGED vars_ec2
            \/ \* a response listing the launched instances (possibly none)
               \E k \in {0, a.launch_instances} :
                 /\ instance_dict' = LaunchedDict(1..k)
                 /\ ec2_provider' = [i \in 1..k |->
                                       [state |-> "pending", has_ip |-> FALSE]]
                 /\ ready_instances' = <<>>
                 /\ curr_try' = 0
                 /\ hist' = [NoHist EXCEPT !.submitted = TRUE]
                 /\ IF a.wait_until_up
                    THEN pc' = "ec2_wait" /\ result' = Running
                    ELSE pc' = "done" /\
                         result' = Return(LaunchedDict(1..k))

\* the instances a poll finds running, in response order, up to and
\* including the first one that has no PublicIpAddress
RECURSIVE RunningPrefix(_, _)
RunningPrefix(ids, prov) ==
    IF ids = <<>> THEN <<>>
    ELSE IF prov[Head(ids)].state # "running"
         THEN RunningPrefix(Tail(ids), prov)
         ELSE IF ~prov[Head(ids)].has_ip THEN <<Head(ids)>>
              ELSE <<Head(ids)>> \o RunningPrefix(Tail(ids), prov)

\* a loop body that marks every launched instance running once the
\* response reports one of them running
PolledDict_AllRunning(d, prov) ==
    IF \E i \in DOMAIN d : prov[i].state = "running"
    THEN [i \in DOMAIN d |-> [d[i] EXCEPT !.state = "running", !.ip = i]]
    ELSE d

\* a loop body that records 'pending' for every instance the response
\* does not report running
PolledDict_ResetUnseen(d, prov) ==
    LET seen == RunningPrefix(SortedSeq(DOMAIN d), prov)
        S == {seen[j] : j \in 1..Len(seen)}
    IN [i \in DOMAIN d |->
          IF i \in S
          THEN [d[i] EXCEPT !.state = "running",
                            !.ip = IF prov[i].has_ip THEN i ELSE @]
          ELSE [d[i] EXCEPT !.state = "pending"]]

\* instance_dict after the loop body over one describe_instances response
PolledDict(d, prov) ==
    LET seen == RunningPrefix(SortedSeq(DOMAIN d), prov)
        S == {seen[j] : j \in 1..Len(seen)}
    IN [i \in DOMAIN d |->
          IF i \in S
          THEN [d[i] EXCEPT !.state = "running",
                            !.ip = IF prov[i].has_ip THEN i ELSE @]
          ELSE d[i]]

\* a running instance of the response lacks PublicIpAddress: KeyError
MissingIp(d, prov) ==
    \E i \in DOMAIN d : prov[i].state = "running" /\ ~prov[i].has_ip

\* the provider states a later poll may report: instance states only advance
ProviderNext(prov) ==
    {p \in [DOMAIN prov -> [state : {InstanceStates[r] : r \in 1..4},
                            has_ip : BOOLEAN]] :
       \A i \in DOMAIN prov :
         /\ StateRank(p[i].state) >= StateRank(prov[i].state)
         /\ (p[i].state # "running" => ~p[i].has_ip)
         /\ (prov[i].state = "running" /\ p[i].state = "running"
               => p[i].has_ip = prov[i].has_ip)}

DescribeInstancesRequest(d) ==
    [method |-> "describe_instances", InstanceIds |-> SortedSeq(DOMAIN d)]

NPolls == CountCalls("describe_instances")

\* one iteration of the wait loop: describe_instances, update, sleep
ec2_poll ==
    /\ pc = "ec2_wait"
    /\ service = "ec2"
    /\ UNCHANGED <<service, worker>>
    /\ UNCHANGED <<vars_globals, spot_fleet_reqid, vars_sqs>>
    /\ EC2LoopCond
    /\ NPolls < MaxPolls
    /\ \/ \* describe_instances raises
          \E e \in ProviderErrors :
            /\ calls' = Append(calls, DescribeInstancesRequest(instance_dict))
            /\ result' = OnException(op.raiseonfail, e)
            /\ hist' = [hist EXCEPT !.provider_failed = TRUE, !.failure = e]
            /\ pc' = "done"
            /\ UNCHANGED <<op, vars_ec2>>
       \/ \E prov \in ProviderNext(ec2_provider) :
            /\ ec2_provider' = prov
            /\ hist' = [hist EXCEPT !.first_all_up =
                          IF curr_try = 0
                          THEN \A i \in DOMAIN prov :
                                 prov[i].state = "running" /\ prov[i].has_ip
                          ELSE @]
            /\ ready_instances' = ready_instances \o
                   RunningPrefix(SortedSeq(DOMAIN instance_dict), prov)
            /\ instance_dict' = PolledDict(instance_dict, prov)
            /\ IF MissingIp(instance_dict, prov)
               THEN /\ calls' = Append(calls,
                                  DescribeInstancesRequest(instance_dict))
                    /\ result' = OnException(op.raiseonfail, "KeyError")
                    /\ pc' = "done"
                    /\ UNCHANGED curr_try
               ELSE /\ calls' = calls \o
                          <<DescribeInstancesRequest(instance_dict),
                            Sleep(sleep_ec2)>>
                    /\ curr_try' = curr_try + 1
                    /\ UNCHANGED <<pc, result>>
            /\ UNCHANGED op

\* the loop condition is false: log and return instance_dict
ec2_return ==
    /\ pc = "ec2_wait"
    /\ service = "ec2"
    /\ UNCHANGED <<service, worker>>
    /\ ~EC2LoopCond
    /\ result' = Return(instance_dict)
    /\ pc' = "done"
    /\ UNCHANGED <<op, calls, hist, vars_ec2, vars_globals, spot_fleet_reqid,
                   vars_sqs>>

\* delete_ec2_nodes: terminate_instances, outside any try block
TerminateArgs ==
    [name : {"delete_ec2_nodes"},
     instance_id_list : {<<1>>, <<1, 2>>}]

\* a termination of the first of the given instances only
TerminateInstancesRequest_FirstOnly(a) ==
    [method |-> "terminate_instances",
     InstanceIds |-> <<a.instance_id_list[1]>>]

TerminateInstancesRequest(a) ==
    [method |-> "terminate_instances", InstanceIds |-> a.instance_id_list]

delete_ec2_nodes ==
    /\ pc = "idle"
    /\ service = "ec2"
    /\ UNCHANGED <<service, worker>>
    /\ \E a \in TerminateArgs :
         /\ op' = a
         /\ calls' = <<TerminateInstancesRequest(a)>>
         /\ \/ \E e \in ProviderErrors :
                 /\ result' = Raise(e)
                 /\ hist' = [NoHist EXCEPT !.provider_failed = TRUE,
                                           !.failure = e]
            \/ /\ result' = Return([TerminatingInstances |->
                                      a.instance_id_list])
               /\ hist' = NoHist
    /\ pc' = "done"
    /\ UNCHANGED <<vars_ec2, vars_globals, spot_fleet_reqid, vars_sqs>>

(***************************************************************************)
(* Spot fleet: make_spot_fleet_cluster, delete_spot_fleet_cluster          *)
(***************************************************************************)
SPOT_FLEET_CONFIG_0 ==
    [IamFleetRole |-> "iam-fleet-role-arn",
     AllocationStrategy |-> "lowestPrice",
     TargetCapacity |-> 20,
     SpotPrice |-> "0.4",
     TerminateInstancesWithExpiration |-> TRUE,
     InstanceInterruptionBehavior |-> "terminate",
     LaunchSpecifications |-> <<>>,
     Type |-> "maintain",
     ReplaceUnhealthyInstances |-> TRUE,
     ValidUntil |-> "datetime-utc"]

SPOT_INSTANCE_TYPES == <<"m5.xlarge", "c5.xlarge">>

\* the nested dict and the nested list are objects of their own; the
\* template holds references to them
SPOT_PERINSTANCE_CONFIG_0 ==
    [InstanceType |-> "instance-type",
     ImageId |-> "image-id",
     SubnetId |-> "subnet-id",
     KeyName |-> "keypair-name",
     IamInstanceProfile |-> [ref |-> "IamInstanceProfile"],
     SecurityGroups |-> [ref |-> "SecurityGroups"],
     UserData |-> "base64-encoded-userdata",
     EbsOptimized |-> TRUE]

heap_0 ==
    [IamInstanceProfile |-> [Arn |-> "instance-profile-role-arn"],
     SecurityGroups |-> <<[GroupId |-> "security-group-id"]>>]

\* a dict with its nested objects read through the heap
Deref(d, h) ==
    [d EXCEPT !.IamInstanceProfile = h[@.ref],
              !.SecurityGroups = h[@.ref]]

\* dict.copy(): a new top-level dict whose values are the same objects
ShallowCopy(d) == d

\* copy.deepcopy(SPOT_FLEET_CONFIG): nothing is shared with the template
DeepCopy(d) == d

\* str(spot_price), for prices given in tenths of a dollar
PriceStr(tenths) ==
    <<"0.1", "0.2", "0.3", "0.4", "0.5">>[tenths]

\* strftime('%Y-%m-%dT%H:%M:%SZ') of utcnow + timedelta(days), as the day
ValidUntil(utcnow, expires_days) == [utc_day |-> utcnow + expires_days]

B64Alphabet ==
    <<"A","B","C","D","E","F","G","H","I","J","K","L","M","N","O","P",
      "Q","R","S","T","U","V","W","X","Y","Z","a","b","c","d","e","f",
      "g","h","i","j","k","l","m","n","o","p","q","r","s","t","u","v",
      "w","x","y","z","0","1","2","3","4","5","6","7","8","9","+","/">>

\* base64.b64encode(...).decode() of a sequence of bytes
RECURSIVE b64encode(_)
b64encode(bytes) ==
    IF bytes = <<>> THEN <<>>
    ELSE LET n == Len(bytes)
             b1 == bytes[1]
             b2 == IF n >= 2 THEN bytes[2] ELSE 0
             b3 == IF n >= 3 THEN bytes[3] ELSE 0
             c1 == B64Alphabet[(b1 \div 4) + 1]
             c2 == B64Alphabet[((b1 % 4) * 16 + (b2 \div 16)) + 1]
             c3 == IF n >= 2
                   THEN B64Alphabet[((b2 % 16) * 4 + (b3 \div 64)) + 1]
                   ELSE "="
             c4 == IF n >= 3 THEN B64Alphabet[(b3 % 64) + 1] ELSE "="
         IN <<c1, c2, c3, c4>> \o
            (IF n > 3 THEN b64encode(SubSeq(bytes, 4, n)) ELSE <<>>)

\* the text sent as UserData as it is, not encoded
udata_fleet_Raw(user_data, utcnow) ==
    CASE user_data.kind = "file" -> user_data.contents
      [] user_data.kind = "text" -> user_data.text
      [] OTHER -> DefaultStub(utcnow)

\* make_spot_fleet_cluster: the text sent as UserData, base64-encoded
udata_fleet(user_data, utcnow) ==
    CASE user_data.kind = "file" -> b64encode(user_data.contents)
      [] user_data.kind = "text" -> b64encode(user_data.text)
      [] OTHER -> b64encode(DefaultStub(utcnow))

\* instance_weights: None, or a list of weights
NoWeights == [is_list |-> FALSE, w |-> <<>>]

SeqsUpTo(S, n) == UNION {[1..k -> S] : k \in 0..n}

FleetArgs ==
    [name : {"make_spot_fleet_cluster"},
     security_groupid : {"sg-a", "sg-b"},
     subnet_id : {"subnet-a"},
     keypair_name : {"key-a"},
     iam_instance_profile_arn : {"arn-a", "arn-b"},
     spot_fleet_iam_role : {"fleet-role-a"},
     target_capacity : {20},
     spot_price : {4},
     expires_days : {7},
     allocation_strategy : {"lowestPrice", "diversified"},
     instance_types : SeqsUpTo({SPOT_INSTANCE_TYPES[i] : i \in 1..2},
                               MaxTypes),
     instance_weights : {NoWeights} \cup
                        [is_list : {TRUE}, w : SeqsUpTo({1, 2}, MaxTypes)],
     instance_ami : {"ami-04681a1dbd79675a5"},
     instance_user_data : UserDataInputs,
     instance_ebs_optimized : {TRUE},
     utcnow : {1},
     wait_until_up : BOOLEAN,
     raiseonfail : BOOLEAN]

\* the fleet-level configuration, before the launch specs are appended
fleetconfig(a, template) ==
    [DeepCopy(template) EXCEPT
       !.IamFleetRole = a.spot_fleet_iam_role,
       !.AllocationStrategy = a.allocation_strategy,
       !.TargetCapacity = a.target_capacity,
       !.SpotPrice = PriceStr(a.spot_price),
       !.ValidUntil = ValidUntil(a.utcnow, a.expires_days)]

\* every type gets the first weight
WeightAt_First(weights, ind) == weights.w[1]

\* instance_weights[ind] for a list, with ind counted from 1
WeightAt(weights, ind) == weights.w[ind]

\* thisinstance after the top-level assignments of one loop iteration
thisinstance(a, ind, template) ==
    LET base == [ShallowCopy(template) EXCEPT
                   !.InstanceType = a.instance_types[ind],
                   !.ImageId = a.instance_ami,
                   !.SubnetId = a.subnet_id,
                   !.KeyName = a.keypair_name,
                   !.UserData = udata_fleet(a.instance_user_data, a.utcnow),
                   !.EbsOptimized = a.instance_ebs_optimized]
    IN IF a.instance_weights.is_list /\ ind <= Len(a.instance_weights.w)
       THEN base @@ [WeightedCapacity |-> WeightAt(a.instance_weights, ind)]
       ELSE base

\* the heap after thisinstance['IamInstanceProfile']['Arn'] = ... and
\* thisinstance['SecurityGroups'][0] = {...}: the writes go through the
\* references held by thisinstance
PatchNested(h, inst, a) ==
    [h EXCEPT ![inst.IamInstanceProfile.ref].Arn = a.iam_instance_profile_arn,
              ![inst.SecurityGroups.ref][1] =
                  [GroupId |-> a.security_groupid]]

\* for ind, itype in enumerate(instance_types): the state after the loop,
\* or after the iteration in which instance_weights[ind] raises IndexError
RECURSIVE BuildSpecs(_, _, _, _)
BuildSpecs(a, ind, template, st) ==
    IF ind > Len(a.instance_types) THEN st
    ELSE LET inst == thisinstance(a, ind, template)
             h == PatchNested(st.heap, inst, a)
         IN IF a.instance_weights.is_list /\ ind > Len(a.instance_weights.w)
            THEN [st EXCEPT !.heap = h, !.error = TRUE]
            ELSE BuildSpecs(a, ind + 1, template,
                            [st EXCEPT !.heap = h,
                                       !.specs = Append(@, inst)])

\* the SpotFleetRequestConfig as the provider receives it
RequestSpotFleetRequest(a, template, st) ==
    [method |-> "request_spot_fleet",
     SpotFleetRequestConfig |->
        [fleetconfig(a, template) EXCEPT !.LaunchSpecifications =
            @ \o [i \in 1..Len(st.specs) |-> Deref(st.specs[i], st.heap)]]]

\* a fleetconfig that is a shallow copy of the template: the launch specs
\* are appended to the list the template holds
TemplateAfterCall_SharedList(template, specs) ==
    [template EXCEPT !.LaunchSpecifications = @ \o specs]

\* the fleet template after the launch specs were appended to
\* fleetconfig['LaunchSpecifications']: fleetconfig is a deep copy, its
\* list is its own, and the top-level assignments go to the copy
TemplateAfterCall(template, specs) == template

FleetStates == {"submitted", "active", "cancelled"}

\* a call that waits for the fleet whatever wait_until_up is
WaitsForFleet_Always(a) == TRUE

\* if not wait_until_up: return spot_fleet_reqid; else: the wait loop
WaitsForFleet(a) == a.wait_until_up

\* make_spot_fleet_cluster up to the start of the wait loop
make_spot_fleet_cluster ==
    /\ pc = "idle"
    /\ service = "fleet"
    /\ UNCHANGED <<service, worker>>
    /\ \E a \in FleetArgs :
         LET st == BuildSpecs(a, 1, SPOT_PERINSTANCE_CONFIG,
                              [heap |-> heap, specs |-> <<>>,
                               error |-> FALSE])
         IN /\ op' = a
            /\ heap' = st.heap
            /\ SPOT_FLEET_CONFIG' =
                 TemplateAfterCall(
                   SPOT_FLEET_CONFIG,
                   [i \in 1..Len(st.specs) |-> Deref(st.specs[i], st.heap)])
            /\ IF st.error
               THEN \* IndexError, raised outside the try block
                    /\ calls' = <<>>
                    /\ result' = Raise("IndexError")
                    /\ hist' = NoHist
                    /\ pc' = "done"
                    /\ UNCHANGED spot_fleet_reqid
               ELSE /\ calls' = <<RequestSpotFleetRequest(
                                     a, SPOT_FLEET_CONFIG, st)>>
                    /\ \/ \E e \in ProviderErrors :
                            /\ result' = OnException(a.raiseonfail, e)
                            /\ hist' = [NoHist EXCEPT
                                          !.provider_failed = TRUE,
                                          !.failure = e]
                            /\ pc' = "done"
                            /\ UNCHANGED spot_fleet_reqid
                       \/ \* an empty response
                          /\ result' = ReturnNone
                          /\ hist' = NoHist
                          /\ pc' = "done"
                          /\ UNCHANGED spot_fleet_reqid
                       \/ /\ spot_fleet_reqid' = "sfr-1"
                          /\ hist' = [NoHist EXCEPT !.submitted = TRUE]
                          /\ IF WaitsForFleet(a)
                             THEN pc' = "fleet_wait" /\ result' = Running
                             ELSE pc' = "done" /\ result' = Return("sfr-1")
    /\ UNCHANGED <<vars_ec2, SPOT_PERINSTANCE_CONFIG, vars_sqs>>

DescribeFleetRequest(reqid) ==
    [method |-> "describe_spot_fleet_requests",
     SpotFleetRequestIds |-> <<reqid>>]

\* a loop test that admits one try too many
FleetLoopCond_OffByOne == curr_try <= ntries_fleet

\* while curr_try < ntries
FleetLoopCond == curr_try < ntries_fleet

\* one iteration of the wait loop: describe_spot_fleet_requests, then
\* break on 'active', else count the try and sleep
fleet_poll ==
    /\ pc = "fleet_wait"
    /\ service = "fleet"
    /\ UNCHANGED <<service, worker>>
    /\ FleetLoopCond
    /\ \/ \E e \in ProviderErrors :
            /\ calls' = Append(calls, DescribeFleetRequest(spot_fleet_reqid))
            /\ result' = OnException(op.raiseonfail, e)
            /\ hist' = [hist EXCEPT !.provider_failed = TRUE, !.failure = e]
            /\ pc' = "done"
            /\ UNCHANGED curr_try
       \/ \E curr_state \in FleetStates \cup {"no-configs"} :
            IF curr_state = "active"
            THEN /\ calls' = Append(calls,
                                    DescribeFleetRequest(spot_fleet_reqid))
                 /\ hist' = [hist EXCEPT !.active_seen = TRUE]
                 /\ result' = Return(spot_fleet_reqid)
                 /\ pc' = "done"
                 /\ UNCHANGED curr_try
            ELSE /\ calls' = calls \o
                       <<DescribeFleetRequest(spot_fleet_reqid),
                         Sleep(sleep_fleet)>>
                 /\ curr_try' = curr_try + 1
                 /\ UNCHANGED <<pc, result, hist>>
    /\ UNCHANGED <<op, instance_dict, ready_instances, ec2_provider,
                   vars_globals, spot_fleet_reqid, vars_sqs>>

\* the tries are used up: return the request id
fleet_return ==
    /\ pc = "fleet_wait"
    /\ service = "fleet"
    /\ UNCHANGED <<service, worker>>
    /\ ~FleetLoopCond
    /\ result' = Return(spot_fleet_reqid)
    /\ pc' = "done"
    /\ UNCHANGED <<op, calls, hist, vars_ec2, vars_globals, spot_fleet_reqid,
                   vars_sqs>>

\* delete_spot_fleet_cluster: cancel_spot_fleet_requests, outside any try
CancelArgs ==
    [name : {"delete_spot_fleet_cluster"},
     spot_fleet_reqid : {"sfr-1", "sfr-2"}]

\* a cancellation that leaves the instances running
CancelSpotFleetRequest_KeepInstances(a) ==
    [method |-> "cancel_spot_fleet_requests",
     SpotFleetRequestIds |-> <<a.spot_fleet_reqid>>,
     TerminateInstances |-> FALSE]

CancelSpotFleetRequest(a) ==
    [method |-> "cancel_spot_fleet_requests",
     SpotFleetRequestIds |-> <<a.spot_fleet_reqid>>,
     TerminateInstances |-> TRUE]

delete_spot_fleet_cluster ==
    /\ pc = "idle"
    /\ service = "fleet"
    /\ UNCHANGED <<service, worker>>
    /\ \E a \in CancelArgs :
         /\ op' = a
         /\ calls' = <<CancelSpotFleetRequest(a)>>
         /\ \/ \E e \in ProviderErrors :
                 /\ result' = Raise(e)
                 /\ hist' = [NoHist EXCEPT !.provider_failed = TRUE,
                                           !.failure = e]
            \/ /\ result' = Return([SuccessfulFleetRequests |->
                                      <<a.spot_fleet_reqid>>])
               /\ hist' = NoHist
    /\ pc' = "done"
    /\ UNCHANGED <<vars_ec2, vars_globals, spot_fleet_reqid, vars_sqs>>

(***************************************************************************)
(* SQS: sqs_create_queue, sqs_delete_queue, sqs_put_item, sqs_get_item,    *)
(* sqs_delete_item                                                         *)
(***************************************************************************)
\* Python values that occur in a job item
PyList(s) == [py |-> "list", elems |-> s]
PyTuple(s) == [py |-> "tuple", elems |-> s]
PySet(s) == [py |-> "set", elems |-> s]
PyDict(s) == [py |-> "dict", elems |-> s]

\* the job items a producer may pass to sqs_put_item; an item holding a
\* set cannot be serialized
Items ==
    [target : {"s3://bucket/lc1.csv"},
     action : {"runpf"},
     args : {PyList(<<>>), PyList(<<1>>), PyTuple(<<1>>), PySet(<<1>>)},
     kwargs : {PyDict(<<>>)},
     outbucket : {"results"}]
    \cup
    [target : {"s3://bucket/lc1.csv"},
     action : {"runpf"},
     args : {PyList(<<>>)},
     kwargs : {PyDict(<<>>)},
     outbucket : {"results"},
     outqueue : {"queue-out"}]

\* json.dumps of a container: lists and tuples both become arrays
ToJson(v) ==
    CASE v.py \in {"list", "tuple"} -> [j |-> "array", elems |-> v.elems]
      [] v.py = "dict" -> [j |-> "object", elems |-> v.elems]

\* json.loads of a container: arrays become lists
FromJson(j) ==
    CASE j.j = "array" -> PyList(j.elems)
      [] j.j = "object" -> PyDict(j.elems)

Serializable(item) == item.args.py # "set" /\ item.kwargs.py # "set"

\* json.dumps(item): the message body
json_dumps(item) ==
    [wf |-> TRUE,
     doc |-> [f \in DOMAIN item |->
                IF f \in {"args", "kwargs"} THEN ToJson(item[f])
                ELSE item[f]]]

\* a body that is not JSON
Garbage == [wf |-> FALSE]

\* json.loads(body), for a well-formed body
json_loads(body) ==
    [f \in DOMAIN body.doc |->
       IF f \in {"args", "kwargs"} THEN FromJson(body.doc[f])
       ELSE body.doc[f]]

QueueUrl == "https://sqs/queue-runpf"

\* the receipt handle of the n-th delivery of message id
ReceiptHandle(id, n) == <<id, n>>

PutArgs ==
    [name : {"sqs_put_item"},
     queue_url : {QueueUrl},
     item : Items,
     delay_seconds : {0, 5},
     raiseonfail : BOOLEAN]

\* a send_message that leaves the delay out
SendMessageRequest_NoDelay(a) ==
    [method |-> "send_message",
     QueueUrl |-> a.queue_url,
     MessageBody |-> json_dumps(a.item),
     DelaySeconds |-> 0]

SendMessageRequest(a) ==
    [method |-> "send_message",
     QueueUrl |-> a.queue_url,
     MessageBody |-> json_dumps(a.item),
     DelaySeconds |-> a.delay_seconds]

\* the message as the queue service stores it
StoredMessage(id, body, delay) ==
    [MessageId |-> id, Body |-> body, delayed |-> delay > 0,
     inflight |-> FALSE, receives |-> 0]

CreateQueueArgs ==
    [name : {"sqs_create_queue"},
     queue_name : {"queue-runpf"},
     options : {[given |-> FALSE],
                [given |-> TRUE, attrs |-> [VisibilityTimeout |-> "30"]]}]

CreateQueueRequest(a) ==
    IF a.options.given
    THEN [method |-> "create_queue", QueueName |-> a.queue_name,
          Attributes |-> a.options.attrs]
    ELSE [method |-> "create_queue", QueueName |-> a.queue_name]

sqs_create_queue ==
    /\ pc = "idle"
    /\ HasClient("sqs")
    /\ UNCHANGED <<service, worker>>
    /\ \E a \in CreateQueueArgs :
         /\ op' = a
         /\ calls' = <<CreateQueueRequest(a)>>
         /\ \/ \E e \in ProviderErrors :
                 /\ result' = ReturnNone
                 /\ hist' = [NoHist EXCEPT !.provider_failed = TRUE,
                                           !.failure = e]
                 /\ UNCHANGED vars_sqs
            \/ \* the service answers nothing
               /\ result' = ReturnNone
               /\ hist' = NoHist
               /\ UNCHANGED vars_sqs
            \/ /\ result' = Return([url |-> QueueUrl, name |-> a.queue_name])
               /\ hist' = NoHist
               /\ queue_exists' = TRUE
               /\ UNCHANGED <<queue, next_id, enqueued, acked, held>>
    /\ pc' = "done"
    /\ UNCHANGED <<vars_ec2, vars_globals, spot_fleet_reqid>>

DeleteQueueArgs ==
    [name : {"sqs_delete_queue"}, queue_url : {QueueUrl}]

sqs_delete_queue ==
    /\ pc = "idle"
    /\ HasClient("sqs")
    /\ UNCHANGED <<service, worker>>
    /\ \E a \in DeleteQueueArgs :
         /\ op' = a
         /\ calls' = <<[method |-> "delete_queue", QueueUrl |-> a.queue_url]>>
         /\ \/ \E e \in ProviderErrors :
                 /\ result' = Return(FALSE)
                 /\ hist' = [NoHist EXCEPT !.provider_failed = TRUE,
                                           !.failure = e]
                 /\ UNCHANGED vars_sqs
            \/ /\ queue_exists
               /\ result' = Return(TRUE)
               /\ hist' = NoHist
               /\ queue_exists' = FALSE
               /\ queue' = <<>>
               /\ held' = {}
               /\ UNCHANGED <<next_id, enqueued, acked>>
    /\ pc' = "done"
    /\ UNCHANGED <<vars_ec2, vars_globals, spot_fleet_reqid>>

sqs_put_item ==
    /\ pc = "idle"
    /\ HasClient("sqs")
    /\ UNCHANGED <<service, worker>>
    /\ \E a \in PutArgs :
         /\ op' = a
         /\ IF ~Serializable(a.item)
            THEN \* json.dumps raises TypeError inside the try block
                 /\ calls' = <<>>
                 /\ result' = OnException(a.raiseonfail, "TypeError")
                 /\ hist' = NoHist
                 /\ UNCHANGED vars_sqs
            ELSE /\ calls' = <<SendMessageRequest(a)>>
                 /\ \/ \E e \in ProviderErrors :
                         /\ result' = OnException(a.raiseonfail, e)
                         /\ hist' = [NoHist EXCEPT !.provider_failed = TRUE,
                                                   !.failure = e]
                         /\ UNCHANGED vars_sqs
                    \/ \* the service answers nothing
                       /\ result' = ReturnNone
                       /\ hist' = NoHist
                       /\ UNCHANGED vars_sqs
                    \/ /\ queue_exists
                       /\ next_id <= MaxSends
                       /\ queue' = Append(queue,
                                     StoredMessage(
                                       next_id,
                                       SendMessageRequest(a).MessageBody,
                                       SendMessageRequest(a).DelaySeconds))
                       /\ next_id' = next_id + 1
                       /\ result' = Return([MessageId |-> next_id])
                       /\ hist' = NoHist
                       /\ enqueued' = enqueued \cup
                                       {[id |-> next_id, item |-> a.item]}
                       /\ UNCHANGED <<queue_exists, acked, held>>
    /\ pc' = "done"
    /\ UNCHANGED <<vars_ec2, vars_globals, spot_fleet_reqid>>

\* another producer writes a body that is not JSON
foreign_send ==
    /\ pc = "idle"
    /\ HasClient("sqs")
    /\ UNCHANGED <<service, worker>>
    /\ queue_exists
    /\ next_id <= MaxSends
    /\ queue' = Append(queue, StoredMessage(next_id, Garbage, 0))
    /\ next_id' = next_id + 1
    /\ UNCHANGED <<pc, op, calls, result, hist, queue_exists, enqueued,
                   acked, held, vars_ec2, vars_globals, spot_fleet_reqid>>

\* the delay of a delayed message elapses
delay_elapsed ==
    /\ pc = "idle"
    /\ HasClient("sqs")
    /\ UNCHANGED <<service, worker>>
    /\ \E i \in 1..Len(queue) :
         /\ queue[i].delayed
         /\ queue' = [queue EXCEPT ![i].delayed = FALSE]
    /\ UNCHANGED <<pc, op, calls, result, hist, queue_exists, next_id,
                   enqueued, acked, held, vars_ec2, vars_globals,
                   spot_fleet_reqid>>

\* the visibility window of a delivered message elapses
visibility_timeout ==
    /\ pc = "idle"
    /\ HasClient("sqs")
    /\ UNCHANGED <<service, worker>>
    /\ \E i \in 1..Len(queue) :
         /\ queue[i].MessageId \in held
         /\ queue' = [queue EXCEPT ![i].inflight = FALSE]
         /\ held' = held \ {queue[i].MessageId}
    /\ UNCHANGED <<pc, op, calls, result, hist, queue_exists, next_id,
                   enqueued, acked, vars_ec2, vars_globals, spot_fleet_reqid>>

GetArgs ==
    [name : {"sqs_get_item"},
     queue_url : {QueueUrl},
     max_items : 1..MaxItems,
     wait_time_seconds : {5},
     raiseonfail : BOOLEAN]

\* a receive_message that overrides the queue's visibility timeout with 0
ReceiveMessageRequest_NoWindow(a) ==
    [method |-> "receive_message",
     QueueUrl |-> a.queue_url,
     AttributeNames |-> <<"All">>,
     MaxNumberOfMessages |-> a.max_items,
     WaitTimeSeconds |-> a.wait_time_seconds,
     VisibilityTimeout |-> 0]

ReceiveMessageRequest(a) ==
    [method |-> "receive_message",
     QueueUrl |-> a.queue_url,
     AttributeNames |-> <<"All">>,
     MaxNumberOfMessages |-> a.max_items,
     WaitTimeSeconds |-> a.wait_time_seconds]

\* do the messages delivered for this request enter a visibility window?
\* They do unless the request asks for a window of length 0.
OpensWindow(req) ==
    ~("VisibilityTimeout" \in DOMAIN req /\ req.VisibilityTimeout = 0)

\* ids of the messages in the queue
Ids(q) == {q[i].MessageId : i \in 1..Len(q)}

\* positions of the messages a consumer can receive, in queue order
Visible(q) ==
    SortedSeq({i \in 1..Len(q) : ~q[i].delayed /\ ~q[i].inflight})

MessageFields == {"MessageId", "ReceiptHandle", "MD5OfBody", "Attributes",
                  "Body"}

\* a message of the receive_message response
DeliveredMessage(m) ==
    [MessageId |-> m.MessageId,
     ReceiptHandle |-> ReceiptHandle(m.MessageId, m.receives + 1),
     MD5OfBody |-> [md5 |-> m.Body],
     Attributes |-> [ApproximateReceiveCount |-> m.receives + 1],
     Body |-> m.Body]

\* the message without one of its fields
Without(msg, f) == [g \in (DOMAIN msg) \ {f} |-> msg[g]]

\* the ways a response of k messages can be damaged: it is intact, or one
\* of its messages lacks one field
Faults(k) ==
    {[pos |-> 0, field |-> "none"]} \cup
    [pos : 1..k, field : MessageFields]

\* the response as received
Damaged(sent, fault) ==
    [j \in 1..Len(sent) |->
       IF j = fault.pos THEN Without(sent[j], fault.field) ELSE sent[j]]

\* does building the result dict of one message raise?
Undeserializable(msg) ==
    \/ MessageFields \ DOMAIN msg # {}
    \/ ~msg.Body.wf

\* does the except handler of one message raise, formatting its log line
\* from msg['MessageId'] and msg['Body']?
HandlerRaises(msg) == {"MessageId", "Body"} \ DOMAIN msg # {}

\* the result dict of one well-formed message
ResultMessage(msg) ==
    [id |-> msg.MessageId,
     receipt_handle |-> msg.ReceiptHandle,
     md5 |-> msg.MD5OfBody,
     attributes |-> msg.Attributes,
     item |-> json_loads(msg.Body)]

\* for msg in resp.get('Messages', []): the list built, and whether the
\* loop was left by an exception
RECURSIVE Deserialize(_, _)
Deserialize(msgs, acc) ==
    IF msgs = <<>> THEN [messages |-> acc, error |-> FALSE]
    ELSE LET msg == Head(msgs)
         IN IF ~Undeserializable(msg)
            THEN Deserialize(Tail(msgs), Append(acc, ResultMessage(msg)))
            ELSE IF HandlerRaises(msg)
                 THEN [messages |-> acc, error |-> TRUE]
                 ELSE Deserialize(Tail(msgs), acc)

\* the queue after the messages at positions pos were delivered
Delivered(q, pos) ==
    [i \in 1..Len(q) |->
       IF \E j \in 1..Len(pos) : pos[j] = i
       THEN [q[i] EXCEPT !.inflight = TRUE, !.receives = @ + 1]
       ELSE q[i]]

\* the queue after the service answered the request with the messages at
\* positions pos
AfterReceive(q, pos, req) ==
    IF OpensWindow(req) THEN Delivered(q, pos)
    ELSE [i \in 1..Len(q) |->
            IF \E j \in 1..Len(pos) : pos[j] = i
            THEN [q[i] EXCEPT !.receives = @ + 1]
            ELSE q[i]]

\* a variant that acknowledges every message as soon as it is received
GetItemCalls_AutoAck(a, sent) ==
    <<ReceiveMessageRequest(a)>> \o
    [j \in 1..Len(sent) |->
       [method |-> "delete_message", QueueUrl |-> a.queue_url,
        ReceiptHandle |-> sent[j].ReceiptHandle]]

\* the provider calls of one sqs_get_item that received the messages
\* `sent`: the receive_message, and nothing else
GetItemCalls(a, sent) == <<ReceiveMessageRequest(a)>>

\* the queue after the service handled the delete_message requests among
\* reqs
ApplyDeletes(q, reqs) ==
    SelectSeq(q, LAMBDA m :
                   ~\E r \in 1..Len(reqs) :
                      /\ reqs[r].method = "delete_message"
                      /\ reqs[r].ReceiptHandle =
                           ReceiptHandle(m.MessageId, m.receives))

\* a variant that reports an empty pull like a failed one
ReceiveResult_NoneWhenEmpty(raiseonfail, r) ==
    IF r.error THEN OnException(raiseonfail, "KeyError")
    ELSE IF r.messages = <<>> THEN ReturnNone
         ELSE Return(r.messages)

\* what sqs_get_item hands back after the loop over the messages: the list
\* built, or the outer handler's outcome when the loop raised
ReceiveResult(raiseonfail, r) ==
    IF r.error THEN OnException(raiseonfail, "KeyError")
    ELSE Return(r.messages)

\* one call sqs_get_item(**a) whose receive_message raises or answers
\* nothing
GetItemFails(a) ==
    /\ pc = "idle"
    /\ HasClient("sqs")
    /\ UNCHANGED <<service, worker>>
    /\ op' = a
    /\ calls' = <<ReceiveMessageRequest(a)>>
    /\ \/ \E e \in ProviderErrors :
            /\ result' = OnException(a.raiseonfail, e)
            /\ hist' = [NoHist EXCEPT !.provider_failed = TRUE,
                                      !.failure = e]
       \/ \* the service answers nothing: logged, falls off the end
          /\ result' = ReturnNone
          /\ hist' = NoHist
    /\ pc' = "done"
    /\ UNCHANGED <<vars_sqs, vars_ec2, vars_globals, spot_fleet_reqid>>

\* one call sqs_get_item(**a) whose receive_message delivers the first k
\* visible messages; the service may damage its response in the ways F
GetItemReceives(a, k, F) ==
    /\ pc = "idle"
    /\ HasClient("sqs")
    /\ UNCHANGED <<service, worker>>
    /\ op' = a
    /\ queue_exists
    /\ \A i \in 1..Len(queue) : queue[i].receives < MaxReceives
    /\ LET vis == Visible(queue)
           req == ReceiveMessageRequest(a)
       IN /\ k \in 0..Len(vis)
          /\ k <= req.MaxNumberOfMessages
          /\ (Len(vis) > 0 => k > 0)
          /\ LET pos == SubSeq(vis, 1, k)
                 sent == [j \in 1..k |-> DeliveredMessage(queue[pos[j]])]
             IN \E fault \in Faults(k) \cap F :
                  LET batch == Damaged(sent, fault)
                      r == Deserialize(batch, <<>>)
                  IN /\ calls' = GetItemCalls(a, sent)
                     /\ queue' = ApplyDeletes(AfterReceive(queue, pos, req),
                                              calls')
                     /\ held' = (held \cup
                                   {queue[pos[j]].MessageId : j \in 1..k})
                                \cap Ids(queue')
                     /\ hist' = [NoHist EXCEPT !.received = TRUE,
                                               !.batch = batch]
                     /\ result' = ReceiveResult(a.raiseonfail, r)
    /\ pc' = "done"
    /\ UNCHANGED <<queue_exists, next_id, enqueued, acked>>
    /\ UNCHANGED <<vars_ec2, vars_globals, spot_fleet_reqid>>

sqs_get_item ==
    \E a \in GetArgs :
      \/ GetItemFails(a)
      \/ \E k \in 0..MaxItems : GetItemReceives(a, k, Faults(MaxItems))

DeleteItemArgs ==
    [name : {"sqs_delete_item"},
     queue_url : {QueueUrl},
     receipt_handle : {ReceiptHandle(i, n) :
                         i \in 1..MaxSends, n \in 1..MaxReceives},
     raiseonfail : BOOLEAN]

\* a delete_message that passes the message id where the receipt handle
\* belongs
DeleteMessageRequest_IdForHandle(a) ==
    [method |-> "delete_message",
     QueueUrl |-> a.queue_url,
     ReceiptHandle |-> <<a.receipt_handle[1]>>]

DeleteMessageRequest(a) ==
    [method |-> "delete_message",
     QueueUrl |-> a.queue_url,
     ReceiptHandle |-> a.receipt_handle]

\* ids of the messages whose latest delivery has this receipt handle
Holds(q, handle) ==
    {q[i].MessageId : i \in {j \in 1..Len(q) :
        ReceiptHandle(q[j].MessageId, q[j].receives) = handle}}

\* the queue after delete_message: the message whose latest delivery has
\* this handle is removed; any other handle leaves the queue as it is
Deleted(q, handle) ==
    SelectSeq(q, LAMBDA m :
                   ReceiptHandle(m.MessageId, m.receives) # handle)

sqs_delete_item ==
    /\ pc = "idle"
    /\ HasClient("sqs")
    /\ UNCHANGED <<service, worker>>
    /\ \E a \in DeleteItemArgs :
         /\ op' = a
         /\ calls' = <<DeleteMessageRequest(a)>>
         /\ \/ \E e \in ProviderErrors :
                 /\ result' = OnException(a.raiseonfail, e)
                 /\ hist' = [NoHist EXCEPT !.provider_failed = TRUE,
                                           !.failure = e,
                                           !.repeat =
                                             a.receipt_handle[1] \in acked]
                 /\ UNCHANGED vars_sqs
            \/ /\ queue_exists
               /\ a.receipt_handle[1] < next_id
               /\ queue' = Deleted(queue,
                                   DeleteMessageRequest(a).ReceiptHandle)
               /\ acked' = acked \cup Holds(queue, a.receipt_handle)
               /\ held' = held \cap Ids(queue')
               /\ result' = ReturnNone
               /\ hist' = [NoHist EXCEPT !.repeat =
                                           a.receipt_handle[1] \in acked]
               /\ UNCHANGED <<queue_exists, next_id, enqueued>>
    /\ pc' = "done"
    /\ UNCHANGED <<vars_ec2, vars_globals, spot_fleet_reqid>>

(***************************************************************************)
(* S3: s3_get_file, s3_put_file, s3_delete_file.  File names and keys are  *)
(* sequences of characters.                                                *)
(***************************************************************************)
\* position of the last occurrence of character c in s, 0 if there is none
LastIndexOf(s, c) ==
    IF \E i \in 1..Len(s) : s[i] = c
    THEN CHOOSE i \in 1..Len(s) :
           s[i] = c /\ \A j \in (i + 1)..Len(s) : s[j] # c
    ELSE 0

\* os.path.basename
basename(p) == SubSeq(p, LastIndexOf(p, "/") + 1, Len(p))

\* os.path.splitext: <<root, ext>>; the extension starts at the last dot
\* of the last path component, leading dots of that component excepted
splitext(p) ==
    LET sep == LastIndexOf(p, "/")
        dot == LastIndexOf(p, ".")
    IN IF dot > sep /\ \E i \in (sep + 1)..(dot - 1) : p[i] # "."
       THEN <<SubSeq(p, 1, dot - 1), SubSeq(p, dot, Len(p))>>
       ELSE <<p, <<>>>>

\* str.replace(old, new): every non-overlapping occurrence, left to right;
\* an empty `old` matches before every character and at the end
RECURSIVE replace(_, _, _)
replace(s, old, new) ==
    IF old = <<>>
    THEN IF s = <<>> THEN new
         ELSE new \o <<Head(s)>> \o replace(Tail(s), old, new)
    ELSE IF Len(s) < Len(old) THEN s
         ELSE IF SubSeq(s, 1, Len(old)) = old
              THEN new \o replace(SubSeq(s, Len(old) + 1, Len(s)), old, new)
              ELSE <<Head(s)>> \o replace(Tail(s), old, new)

BucketName == <<"b">>

\* keys of objects passed to s3_delete_file
Keys == {<<"a", ".", "g">>, <<"a", ".", "s">>, <<"a">>}

\* local paths passed to the functions
LocalPaths == {<<"a", ".", "g">>, <<"a">>,
               <<".", "g", "/", "a", ".", "g">>}

\* altexts: None, or a list of extensions
NoAltexts == [is_list |-> FALSE, exts |-> <<>>]

Extensions == {<<".", "s">>, <<>>}

GetFileArgs ==
    [name : {"s3_get_file"},
     bucket : {BucketName},
     filename : {<<"a", ".", "g">>, <<"a">>},
     local_file : LocalPaths,
     altexts : {NoAltexts} \cup
               [is_list : {TRUE}, exts : SeqsUpTo(Extensions, MaxAltexts)],
     raiseonfail : BOOLEAN]

DownloadFileRequest(b, key, dest) ==
    [method |-> "download_file", Bucket |-> b, Key |-> key, Filename |-> dest]

\* a key made by appending the alternate extension to the whole filename
check_file_Appended(filename, alt_extension) == filename \o alt_extension

\* the key tried for an alternate extension
check_file(filename, alt_extension) == splitext(filename)[1] \o alt_extension

\* the local path used for an alternate extension
alt_local_file(filename, local_file, alt_extension) ==
    replace(local_file, splitext(filename)[2], alt_extension)

\* for alt_extension in altexts: the download attempts made from position
\* i on, and the path returned by the first attempt that succeeds;
\* ok[j] says whether the provider serves attempt j
RECURSIVE TryAltexts(_, _, _, _)
TryAltexts(a, i, ok, acc) ==
    IF i > Len(a.altexts.exts)
    THEN [calls |-> acc, found |-> FALSE, path |-> <<>>]
    ELSE LET alt == a.altexts.exts[i]
             dest == alt_local_file(a.filename, a.local_file, alt)
             req == DownloadFileRequest(a.bucket,
                                        check_file(a.filename, alt), dest)
         IN IF ok[i]
            THEN [calls |-> Append(acc, req), found |-> TRUE, path |-> dest]
            ELSE TryAltexts(a, i + 1, ok, Append(acc, req))

s3_get_file ==
    /\ pc = "idle"
    /\ HasClient("s3")
    /\ UNCHANGED <<service, worker>>
    /\ \E a \in GetFileArgs :
         /\ op' = a
         /\ \/ \* the download of `filename` succeeds
               /\ calls' = <<DownloadFileRequest(a.bucket, a.filename,
                                                 a.local_file)>>
               /\ result' = Return(a.local_file)
               /\ hist' = NoHist
            \/ \* it fails: the key is missing, or the provider fails
               \E e \in ProviderErrors :
                 IF a.altexts.is_list
                 THEN \E ok \in [1..Len(a.altexts.exts) -> BOOLEAN] :
                        LET r == TryAltexts(a, 1, ok,
                                    <<DownloadFileRequest(a.bucket,
                                         a.filename, a.local_file)>>)
                        IN /\ calls' = r.calls
                           /\ result' = IF r.found THEN Return(r.path)
                                        ELSE ReturnNone
                           /\ hist' = [NoHist EXCEPT
                                         !.provider_failed = TRUE,
                                         !.failure = e,
                                         !.served = ok]
                 ELSE /\ calls' = <<DownloadFileRequest(a.bucket,
                                        a.filename, a.local_file)>>
                      /\ result' = OnException(a.raiseonfail, e)
                      /\ hist' = [NoHist EXCEPT !.provider_failed = TRUE,
                                                !.failure = e]
    /\ pc' = "done"
    /\ UNCHANGED <<vars_ec2, vars_globals, spot_fleet_reqid, vars_sqs>>

PutFileArgs ==
    [name : {"s3_put_file"},
     local_file : LocalPaths,
     bucket : {BucketName},
     raiseonfail : BOOLEAN]

\* an upload under the whole local path
UploadFileRequest_FullPath(a) ==
    [method |-> "upload_file", Filename |-> a.local_file,
     Bucket |-> a.bucket, Key |-> a.local_file]

UploadFileRequest(a) ==
    [method |-> "upload_file", Filename |-> a.local_file,
     Bucket |-> a.bucket, Key |-> basename(a.local_file)]

\* 's3://%s/%s' % (bucket, os.path.basename(local_file))
S3Url(b, local_file) ==
    <<"s", "3", ":", "/", "/">> \o b \o <<"/">> \o basename(local_file)

s3_put_file ==
    /\ pc = "idle"
    /\ HasClient("s3")
    /\ UNCHANGED <<service, worker>>
    /\ \E a \in PutFileArgs :
         /\ op' = a
         /\ calls' = <<UploadFileRequest(a)>>
         /\ \/ \E e \in ProviderErrors :
                 /\ result' = OnException(a.raiseonfail, e)
                 /\ hist' = [NoHist EXCEPT !.provider_failed = TRUE,
                                           !.failure = e]
            \/ /\ result' = Return(S3Url(a.bucket, a.local_file))
               /\ hist' = NoHist
    /\ pc' = "done"
    /\ UNCHANGED <<vars_ec2, vars_globals, spot_fleet_reqid, vars_sqs>>

DeleteFileArgs ==
    [name : {"s3_delete_file"},
     bucket : {BucketName},
     filename : Keys,
     raiseonfail : BOOLEAN]

DeleteObjectRequest(a) ==
    [method |-> "delete_object", Bucket |-> a.bucket, Key |-> a.filename]

s3_delete_file ==
    /\ pc = "idle"
    /\ HasClient("s3")
    /\ UNCHANGED <<service, worker>>
    /\ \E a \in DeleteFileArgs :
         /\ op' = a
         /\ calls' = <<DeleteObjectRequest(a)>>
         /\ \/ \E e \in ProviderErrors :
                 /\ result' = OnException(a.raiseonfail, e)
                 /\ hist' = [NoHist EXCEPT !.provider_failed = TRUE,
                                           !.failure = e]
            \/ \* the service answers nothing: logged, falls off the end
               /\ result' = ReturnNone
               /\ hist' = NoHist
            \/ \* a response carrying DeleteMarker
               /\ result' = Return(TRUE)
               /\ hist' = NoHist
            \/ \* a response without DeleteMarker: KeyError in the try block
               /\ result' = OnException(a.raiseonfail, "KeyError")
               /\ hist' = NoHist
    /\ pc' = "done"
    /\ UNCHANGED <<vars_ec2, vars_globals, spot_fleet_reqid, vars_sqs>>

\* the caller takes the outcome and the function's locals go out of scope;
\* the next call can start
finish ==
    /\ pc = "done"
    /\ UNCHANGED <<service, worker>>
    /\ pc' = "idle"
    /\ op' = [name |-> "none"]
    /\ calls' = <<>>
    /\ result' = Running
    /\ hist' = NoHist
    /\ instance_dict' = <<>>
    /\ ready_instances' = <<>>
    /\ curr_try' = 0
    /\ ec2_provider' = <<>>
    /\ spot_fleet_reqid' = ""
    /\ UNCHANGED <<vars_globals, vars_sqs>>

\* a worker that holds no job; stored and announced record what the worker
\* has done for the job it holds: stored its result, enqueued its result
\* descriptor
WorkerIdle ==
    [stage |-> "idle", job |-> <<>>, stored |-> FALSE, announced |-> FALSE]

InitLocals ==
    /\ pc = "idle"
    /\ op = [name |-> "none"]
    /\ calls = <<>>
    /\ result = Running
    /\ hist = NoHist
    /\ instance_dict = <<>>
    /\ ready_instances = <<>>
    /\ curr_try = 0
    /\ ec2_provider = <<>>
    /\ SPOT_FLEET_CONFIG = SPOT_FLEET_CONFIG_0
    /\ SPOT_PERINSTANCE_CONFIG = SPOT_PERINSTANCE_CONFIG_0
    /\ heap = heap_0
    /\ spot_fleet_reqid = ""
    /\ queue_exists = FALSE
    /\ queue = <<>>
    /\ next_id = 1
    /\ enqueued = {}
    /\ acked = {}
    /\ held = {}
    /\ worker = WorkerIdle

Init == InitLocals /\ service \in Services

Next ==
    \/ s3_get_file
    \/ s3_put_file
    \/ s3_delete_file
    \/ sqs_create_queue
    \/ sqs_delete_queue
    \/ sqs_put_item
    \/ sqs_get_item
    \/ sqs_delete_item
    \/ foreign_send
    \/ delay_elapsed
    \/ visibility_timeout
    \/ make_ec2_nodes
    \/ ec2_poll
    \/ ec2_return
    \/ delete_ec2_nodes
    \/ make_spot_fleet_cluster
    \/ fleet_poll
    \/ fleet_return
    \/ delete_spot_fleet_cluster
    \/ finish

Spec == Init /\ [][Next]_vars

\* the functions of one service only
NextS3 ==
    \/ s3_get_file
    \/ s3_put_file
    \/ s3_delete_file
    \/ finish

InitS3 == Init /\ service = "s3"

SpecS3 == InitS3 /\ [][NextS3]_vars

NextSQS ==
    \/ sqs_create_queue
    \/ sqs_delete_queue
    \/ sqs_put_item
    \/ sqs_get_item
    \/ sqs_delete_item
    \/ foreign_send
    \/ delay_elapsed
    \/ visibility_timeout
    \/ finish

InitSQS == Init /\ service = "sqs"

SpecSQS == InitSQS /\ [][NextSQS]_vars

NextEC2 ==
    \/ make_ec2_nodes
    \/ ec2_poll
    \/ ec2_return
    \/ delete_ec2_nodes
    \/ finish

InitEC2 == Init /\ service = "ec2"

SpecEC2 == InitEC2 /\ [][NextEC2]_vars

NextFleet ==
    \/ make_spot_fleet_cluster
    \/ fleet_poll
    \/ fleet_return
    \/ delete_spot_fleet_cluster
    \/ finish

InitFleet == Init /\ service = "fleet"

SpecFleet == InitFleet /\ [][NextFleet]_vars

(***************************************************************************)
(* A worker process, as the control flow of the system describes it: it    *)
(* long-polls the queue, pulls a job, has it processed, writes the result  *)
(* to the object store, enqueues a result descriptor on the output queue   *)
(* when the job names one, and finally acknowledges the message.  The      *)
(* worker calls sqs_get_item, s3_put_file, sqs_put_item and                *)
(* sqs_delete_item; the producer's calls and the passing of time are       *)
(* interleaved with its own.                                               *)
(***************************************************************************)
\* the job descriptor names an output queue
WantsDescriptor(job) == "outqueue" \in DOMAIN job.item

\* a worker that acknowledges a message as soon as it holds it
MayAcknowledge_OnReceipt(w) == w.stage \in {"pulled", "stored", "announced"}

\* the worker has done everything that comes before the acknowledge
MayAcknowledge(w) ==
    \/ w.stage = "announced"
    \/ w.stage = "stored" /\ ~WantsDescriptor(w.job)

vars_call == <<pc, op, calls, result, hist>>

\* the worker long-polls the queue for one job
worker_pull ==
    /\ service = "worker"
    /\ worker.stage = "idle"
    /\ sqs_get_item
    /\ op'.max_items = 1

\* the pull returned a message: the worker holds it as its job
worker_take ==
    /\ service = "worker"
    /\ pc = "done"
    /\ op.name = "sqs_get_item"
    /\ worker.stage = "idle"
    /\ result.kind = "return"
    /\ ~result.none
    /\ result.val # <<>>
    /\ worker' = [worker EXCEPT !.stage = "pulled", !.job = result.val[1]]
    /\ UNCHANGED <<vars_call, vars_ec2, vars_globals, spot_fleet_reqid,
                   vars_sqs, service>>

\* the worker fails before it has stored the result: resolving the input
\* or the processing collaborator failed, or the process died
worker_fail ==
    /\ service = "worker"
    /\ pc = "idle"
    /\ worker.stage = "pulled"
    /\ worker' = WorkerIdle
    /\ UNCHANGED <<vars_call, vars_ec2, vars_globals, spot_fleet_reqid,
                   vars_sqs, service>>

\* the job is processed: the worker writes the result to the object store
worker_store ==
    /\ service = "worker"
    /\ worker.stage = "pulled"
    /\ s3_put_file

\* the worker looks at what s3_put_file returned: a locator means the
\* result is stored; anything else and the worker gives the job up
worker_stored ==
    /\ service = "worker"
    /\ pc = "done"
    /\ op.name = "s3_put_file"
    /\ worker.stage = "pulled"
    /\ worker' = IF result.kind = "return" /\ ~result.none
                 THEN [worker EXCEPT !.stage = "stored", !.stored = TRUE]
                 ELSE WorkerIdle
    /\ UNCHANGED <<vars_call, vars_ec2, vars_globals, spot_fleet_reqid,
                   vars_sqs, service>>

\* the descriptor of a stored result: the job item, pointing at the result
ResultDescriptor(job) ==
    [job.item EXCEPT !.target = "s3://results/lc1.pkl"]

\* the worker enqueues the result descriptor on the output queue with
\* sqs_put_item; the output queue itself is not part of the model.  When
\* the enqueue fails the worker gives the job up
worker_announce ==
    /\ service = "worker"
    /\ pc = "idle"
    /\ worker.stage = "stored"
    /\ WantsDescriptor(worker.job)
    /\ op' = [name |-> "sqs_put_item",
              queue_url |-> worker.job.item.outqueue,
              item |-> ResultDescriptor(worker.job),
              delay_seconds |-> 0,
              raiseonfail |-> FALSE]
    /\ calls' = <<SendMessageRequest(op')>>
    /\ hist' = NoHist
    /\ \/ /\ result' = ReturnNone
          /\ worker' = WorkerIdle
       \/ /\ result' = Return([MessageId |-> 0])
          /\ worker' = [worker EXCEPT !.stage = "announced",
                                       !.announced = TRUE]
    /\ pc' = "done"
    /\ UNCHANGED <<vars_ec2, vars_globals, spot_fleet_reqid, vars_sqs,
                   service>>

\* the worker acknowledges the message of its job
worker_ack ==
    /\ service = "worker"
    /\ worker.stage # "idle"
    /\ MayAcknowledge(worker)
    /\ sqs_delete_item
    /\ op'.receipt_handle = worker.job.receipt_handle

\* the acknowledge returned: the worker is done with the job
worker_acked ==
    /\ service = "worker"
    /\ pc = "done"
    /\ op.name = "sqs_delete_item"
    /\ worker.stage # "idle"
    /\ worker' = WorkerIdle
    /\ UNCHANGED <<vars_call, vars_ec2, vars_globals, spot_fleet_reqid,
                   vars_sqs, service>>

\* the worker has yet to look at what the call returned
WorkerMustLook ==
    \/ /\ op.name = "sqs_get_item"
       /\ worker.stage = "idle"
       /\ result.kind = "return"
       /\ ~result.none
       /\ result.val # <<>>
    \/ op.name = "s3_put_file" /\ worker.stage = "pulled"
    \/ op.name = "sqs_delete_item" /\ worker.stage # "idle"

\* a call returns to the worker, or to the producer
worker_finish ==
    /\ service = "worker"
    /\ ~WorkerMustLook
    /\ finish

\* the producer creates the queue and enqueues jobs, with or without an
\* output queue; the arguments a job carries for the processing
\* collaborator make no difference to the worker
producer_call ==
    /\ service = "worker"
    /\ \/ sqs_create_queue
       \/ /\ sqs_put_item
          /\ op'.item.args = PyList(<<>>)
          /\ ~op'.raiseonfail

\* a delay or a visibility window elapses
time_passes ==
    /\ service = "worker"
    /\ \/ delay_elapsed
       \/ visibility_timeout

NextWorker ==
    \/ producer_call
    \/ time_passes
    \/ worker_pull
    \/ worker_take
    \/ worker_fail
    \/ worker_store
    \/ worker_stored
    \/ worker_announce
    \/ worker_ack
    \/ worker_acked
    \/ worker_finish

InitWorker == InitLocals /\ service = "worker"

SpecWorker == InitWorker /\ [][NextWorker]_vars

(***************************************************************************)
(* Properties                                                              *)
(***************************************************************************)
NSleeps == CountCalls("sleep")

NFleetPolls == CountCalls("describe_spot_fleet_requests")

Launching == op.name = "make_ec2_nodes"

RequestingFleet == op.name = "make_spot_fleet_cluster"

\* the inverse of b64encode, on padded base64 text
B64Value(c) ==
    IF c = "=" THEN 0
    ELSE (CHOOSE i \in 1..64 : B64Alphabet[i] = c) - 1

RECURSIVE b64decode(_)
b64decode(chars) ==
    IF Len(chars) < 4 THEN <<>>
    ELSE LET v1 == B64Value(chars[1])
             v2 == B64Value(chars[2])
             v3 == B64Value(chars[3])
             v4 == B64Value(chars[4])
             b1 == v1 * 4 + (v2 \div 16)
             b2 == (v2 % 16) * 16 + (v3 \div 4)
             b3 == (v3 % 4) * 64 + v4
             group == IF chars[3] = "=" THEN <<b1>>
                      ELSE IF chars[4] = "=" THEN <<b1, b2>>
                      ELSE <<b1, b2, b3>>
         IN group \o b64decode(SubSeq(chars, 5, Len(chars)))

\* the script text a user_data argument stands for
SuppliedText(user_data, utcnow) ==
    CASE user_data.kind = "file" -> user_data.contents
      [] user_data.kind = "text" -> user_data.text
      [] OTHER -> DefaultStub(utcnow)

\* C1: a waiting launch of at least one instance whose status polls never
\* report an instance as running makes at most 5 status polls, and returns
\* after exactly 5 with the mapping, no instance marked running, no raise.
C1_NeverRunningStopsAtCap ==
    (/\ Launching
     /\ op.wait_until_up
     /\ hist.submitted
     /\ ~hist.provider_failed
     /\ DOMAIN instance_dict # {}
     /\ ready_instances = <<>>)
    => /\ NPolls <= ntries_ec2
       /\ (pc = "done" =>
             /\ NPolls = ntries_ec2
             /\ result = Return(instance_dict)
             /\ \A i \in DOMAIN instance_dict :
                  instance_dict[i].state # "running")

\* C2: a waiting launch whose first status poll reports every requested
\* instance as running returns within one poll cycle (one status poll,
\* one sleep), every instance of the returned mapping marked running.
C2_AllUpReturnsInOneCycle ==
    (/\ Launching
     /\ op.wait_until_up
     /\ DOMAIN instance_dict # {}
     /\ hist.first_all_up)
    => /\ NPolls <= 1
       /\ NSleeps <= 1
       /\ (curr_try >= 1 => pc = "done" \/ ~EC2LoopCond)
       /\ (pc = "done" =>
             /\ result = Return(instance_dict)
             /\ \A i \in DOMAIN instance_dict :
                  instance_dict[i].state = "running")

\* C3: a waiting fleet request that was submitted successfully returns
\* the request id under soft-fail, whatever the status polls do.
C3_SubmittedFleetReturnsId ==
    (/\ RequestingFleet
     /\ op.wait_until_up
     /\ ~op.raiseonfail
     /\ hist.submitted
     /\ pc = "done")
    => result = Return(spot_fleet_reqid)

\* C4: the fleet wait loop terminates: at most 10 status polls; the poll
\* that reports 'active' is the last event of the call (no later poll, no
\* later sleep); when the 10 tries are used up the call returns the id
\* without raising; and a call that is waiting always comes to its end.
C4_FleetPollState ==
    /\ NFleetPolls <= ntries_fleet
    /\ (RequestingFleet /\ hist.active_seen =>
          /\ pc = "done"
          /\ calls[Len(calls)].method = "describe_spot_fleet_requests"
          /\ NSleeps = NFleetPolls - 1
          /\ result = Return(spot_fleet_reqid))
    /\ (RequestingFleet /\ pc = "done" /\ NFleetPolls = ntries_fleet
          /\ ~hist.active_seen /\ ~hist.provider_failed =>
          /\ NSleeps = ntries_fleet
          /\ result = Return(spot_fleet_reqid))

C5_CancelAlwaysTerminates ==
    /\ \A i \in 1..Len(calls) :
         calls[i].method = "cancel_spot_fleet_requests"
           => calls[i].TerminateInstances = TRUE
    /\ (op.name = "delete_spot_fleet_cluster" =>
          /\ Len(calls) = 1
          /\ calls[1].method = "cancel_spot_fleet_requests"
          /\ calls[1].SpotFleetRequestIds = <<op.spot_fleet_reqid>>)
    /\ (op.name # "delete_spot_fleet_cluster" =>
          CountCalls("cancel_spot_fleet_requests") = 0)

C5_Witness ==
    /\ op.name = "delete_spot_fleet_cluster"
    /\ pc = "done"
    /\ result.kind = "return"
    /\ calls[1].TerminateInstances

\* C6: the per-instance template, nested profile and security-group
\* entries included, keeps its initial value.
C6_TemplateNeverMutated ==
    Deref(SPOT_PERINSTANCE_CONFIG, heap) =
        Deref(SPOT_PERINSTANCE_CONFIG_0, heap_0)

\* C7: with k instance types and k weights the submitted configuration
\* has exactly k launch specs; spec i has type i and weight i; every spec
\* carries the image, subnet, keypair, profile, security group and user
\* data given to the call.
C7_FleetComposition ==
    (/\ RequestingFleet
     /\ op.instance_weights.is_list
     /\ Len(op.instance_weights.w) = Len(op.instance_types))
    => /\ Len(calls) >= 1
       /\ calls[1].method = "request_spot_fleet"
       /\ LET specs == calls[1].SpotFleetRequestConfig.LaunchSpecifications
          IN /\ Len(specs) = Len(op.instance_types)
             /\ \A i \in 1..Len(specs) :
                  /\ specs[i].InstanceType = op.instance_types[i]
                  /\ "WeightedCapacity" \in DOMAIN specs[i]
                  /\ specs[i].WeightedCapacity = op.instance_weights.w[i]
                  /\ specs[i].ImageId = op.instance_ami
                  /\ specs[i].SubnetId = op.subnet_id
                  /\ specs[i].KeyName = op.keypair_name
                  /\ specs[i].IamInstanceProfile =
                       [Arn |-> op.iam_instance_profile_arn]
                  /\ specs[i].SecurityGroups =
                       <<[GroupId |-> op.security_groupid]>>
                  /\ b64decode(specs[i].UserData) =
                       SuppliedText(op.instance_user_data, op.utcnow)

C7_Witness ==
    /\ RequestingFleet
    /\ pc = "done"
    /\ op.instance_types = <<"m5.xlarge", "c5.xlarge">>
    /\ op.instance_weights = [is_list |-> TRUE, w |-> <<1, 2>>]
    /\ Len(calls) >= 1
    /\ Len(calls[1].SpotFleetRequestConfig.LaunchSpecifications) = 2
    /\ calls[1].SpotFleetRequestConfig.LaunchSpecifications[2]
          .WeightedCapacity = 2

\* C8: under soft-fail (no raiseonfail, or raiseonfail = FALSE) a function
\* whose provider call fails returns a sentinel and does not raise.
C8_SoftFailNeverRaises ==
    (/\ pc = "done"
     /\ hist.provider_failed
     /\ ("raiseonfail" \in DOMAIN op => ~op.raiseonfail))
    => /\ result.kind = "return"
       /\ (op.name # "s3_get_file" =>
             \/ result.none
             \/ (op.name = "sqs_delete_queue" /\ result.val = FALSE))

\* C9: with raiseonfail = TRUE a failure of the provider call in
\* s3_put_file, s3_delete_file, sqs_put_item, sqs_get_item,
\* sqs_delete_item, make_ec2_nodes or make_spot_fleet_cluster reaches the
\* caller as that same failure; no sentinel is returned.
HardFailOps ==
    {"s3_put_file", "s3_delete_file", "sqs_put_item", "sqs_get_item",
     "sqs_delete_item", "make_ec2_nodes", "make_spot_fleet_cluster"}

C9_HardFailPropagates ==
    (/\ op.name \in HardFailOps
     /\ op.raiseonfail
     /\ hist.provider_failed)
    => /\ pc = "done"
       /\ result = Raise(hist.failure)
       /\ hist.failure \in ProviderErrors

C9_Witness ==
    /\ op.name = "make_ec2_nodes"
    /\ op.raiseonfail
    /\ hist.provider_failed
    /\ hist.submitted
    /\ NPolls >= 2
    /\ result.kind = "raise"

\* the result dicts of the well-formed messages of a batch, in order
RECURSIVE WellFormed(_)
WellFormed(batch) ==
    IF batch = <<>> THEN <<>>
    ELSE IF /\ MessageFields \subseteq DOMAIN Head(batch)
            /\ Head(batch).Body.wf
         THEN <<[id |-> Head(batch).MessageId,
                 receipt_handle |-> Head(batch).ReceiptHandle,
                 md5 |-> Head(batch).MD5OfBody,
                 attributes |-> Head(batch).Attributes,
                 item |-> json_loads(Head(batch).Body)]>>
              \o WellFormed(Tail(batch))
         ELSE WellFormed(Tail(batch))

\* C10: sqs_get_item returns exactly the well-formed messages of the
\* received batch, in received order, whatever corrupt messages (body not
\* JSON, or a missing field) the batch holds.
C10_DequeueIsolatesCorrupt ==
    (/\ op.name = "sqs_get_item"
     /\ pc = "done"
     /\ hist.received)
    => result = Return(WellFormed(hist.batch))

\* C11: sqs_get_item keeps an empty pull and a failed pull apart.  A
\* receive_message that succeeds with no message returns the empty list; a
\* receive_message that raises returns None under soft-fail; the empty list
\* is returned only for a receive that succeeded, and None is not returned
\* for a receive that succeeded with no message.
C11_EmptyPullIsNotFailure ==
    (/\ op.name = "sqs_get_item"
     /\ pc = "done")
    => /\ (hist.received /\ hist.batch = <<>> => result = Return(<<>>))
       /\ (hist.provider_failed /\ ~op.raiseonfail => result = ReturnNone)
       /\ (result = Return(<<>>) => hist.received /\ ~hist.provider_failed)
       /\ (result = ReturnNone => ~(hist.received /\ hist.batch = <<>>))

C11_Witness ==
    /\ op.name = "sqs_get_item"
    /\ pc = "done"
    /\ queue_exists
    /\ hist.received
    /\ hist.batch = <<>>
    /\ result = Return(<<>>)

\* C12: a message that sqs_put_item put on the queue for item D and that a
\* later sqs_get_item returns carries an item equal to D.
C12_RoundTrip ==
    (/\ op.name = "sqs_get_item"
     /\ pc = "done"
     /\ result.kind = "return"
     /\ ~result.none)
    => \A j \in 1..Len(result.val) :
         \A e \in enqueued :
           e.id = result.val[j].id => result.val[j].item = e.item

\* C13: under soft-fail, sqs_delete_item called with a receipt handle of a
\* message that an earlier sqs_delete_item already removed returns normally
\* (no exception reaches the caller) and leaves the queue as it was.
C13_AckIdempotent ==
    [][(/\ pc = "idle"
        /\ pc' = "done"
        /\ op'.name = "sqs_delete_item"
        /\ op'.receipt_handle[1] \in acked)
       => /\ queue' = queue
          /\ (~op'.raiseonfail => result' = ReturnNone)]_vars

C13_Witness ==
    /\ op.name = "sqs_delete_item"
    /\ pc = "done"
    /\ ~op.raiseonfail
    /\ hist.repeat
    /\ op.receipt_handle[1] \in acked
    /\ result = ReturnNone

\* C14: whichever worker calls, a message that was delivered and is still
\* inside its visibility window (neither acknowledged nor timed out) is not
\* delivered by any sqs_get_item: while the window is open the message has
\* the one receipt handle of that delivery, so one worker holds it.
C14_OneHolderPerWindow ==
    [][\A i \in 1..Len(queue) : \A j \in 1..Len(queue') :
         (/\ queue[i].MessageId = queue'[j].MessageId
          /\ queue[i].MessageId \in held)
         => queue'[j].receives = queue[i].receives]_vars

C14_Witness ==
    /\ op.name = "sqs_get_item"
    /\ pc = "done"
    /\ hist.received
    /\ hist.batch = <<>>
    /\ held # {}
    /\ \E i \in 1..Len(queue) :
         queue[i].MessageId \in held /\ queue[i].receives = 1

\* the message with this id is in the queue and has been delivered n times
DeliveredTimes(id, n) ==
    \E i \in 1..Len(queue) :
      queue[i].MessageId = id /\ queue[i].receives = n

\* some message has been delivered as often as a run explores
ReceiveCapReached ==
    \E i \in 1..Len(queue) : queue[i].receives >= MaxReceives

\* C15: at-least-once delivery.  sqs_get_item never removes a message from
\* the queue; and a message that was delivered and is not acknowledged
\* (nor its queue deleted) is delivered again by a later sqs_get_item once
\* its visibility window has elapsed.
C15_AtLeastOnce ==
    /\ [][(/\ pc = "idle"
           /\ pc' = "done"
           /\ op'.name = "sqs_get_item")
          => Ids(queue') = Ids(queue)]_vars
    /\ \A id \in 1..MaxSends : \A n \in 1..(MaxReceives - 1) :
         (DeliveredTimes(id, n) /\ id \in held)
         ~> (\/ id \notin Ids(queue)
             \/ DeliveredTimes(id, n + 1)
             \/ ReceiveCapReached)

C15_Witness ==
    /\ op.name = "sqs_get_item"
    /\ pc = "done"
    /\ result.kind = "return"
    /\ ~result.none
    /\ Len(result.val) = 1
    /\ result.val[1].receipt_handle = ReceiptHandle(1, 2)
    /\ DeliveredTimes(1, 2)
    /\ acked = {}

\* an sqs_get_item step whose receive_message was answered
ReceivedStep ==
    /\ pc = "idle"
    /\ pc' = "done"
    /\ op'.name = "sqs_get_item"
    /\ hist'.received

\* C16: with a single job in the queue, sqs_get_item(max_items=1) returns
\* one message carrying a non-empty receipt handle; sqs_delete_item with
\* that handle returns without raising and removes the message; an
\* sqs_get_item made while every message left is inside its visibility
\* window (or none is left) returns the empty list; and no sqs_get_item
\* returns a message that was acknowledged.
C16_AckedIsGone ==
    /\ [][(/\ ReceivedStep
           /\ op'.max_items = 1
           /\ Len(queue) = 1
           /\ Visible(queue) = <<1>>
           /\ hist'.batch = <<DeliveredMessage(queue[1])>>
           /\ queue[1].Body.wf)
          => /\ result'.kind = "return"
             /\ ~result'.none
             /\ Len(result'.val) = 1
             /\ result'.val[1].id = queue[1].MessageId
             /\ result'.val[1].receipt_handle # <<>>
             /\ Holds(queue', result'.val[1].receipt_handle)
                  = {queue[1].MessageId}]_vars
    /\ [][(/\ pc = "idle"
           /\ pc' = "done"
           /\ op'.name = "sqs_delete_item"
           /\ ~hist'.provider_failed
           /\ Holds(queue, op'.receipt_handle) # {})
          => /\ result' = ReturnNone
             /\ Ids(queue') = Ids(queue) \ Holds(queue, op'.receipt_handle)
         ]_vars
    /\ [][(/\ ReceivedStep
           /\ Ids(queue) \subseteq held)
          => result' = Return(<<>>)]_vars
    /\ [][ReceivedStep
          => \A j \in 1..Len(hist'.batch) :
               "MessageId" \in DOMAIN hist'.batch[j]
                 => hist'.batch[j].MessageId \notin acked]_vars
    /\ [](acked \cap Ids(queue) = {})

C16_Witness ==
    /\ op.name = "sqs_get_item"
    /\ pc = "done"
    /\ hist.received
    /\ result = Return(<<>>)
    /\ queue_exists
    /\ queue = <<>>
    /\ Cardinality(enqueued) = 1
    /\ acked = {e.id : e \in enqueued}

\* position of the first alternate the provider serves, 0 if it serves none
FirstServed(served) ==
    IF \E i \in 1..Len(served) : served[i]
    THEN CHOOSE i \in 1..Len(served) :
           served[i] /\ \A j \in 1..(i - 1) : ~served[j]
    ELSE 0

GetFileDone == op.name = "s3_get_file" /\ pc = "done"

\* the keys of the download attempts are pairwise different
KeysDistinct ==
    \A i, j \in 1..Len(calls) : i # j => calls[i].Key # calls[j].Key

\* the first attempt is the one for `filename`; a call whose first attempt
\* succeeds, or that was given no alternates, makes no other; otherwise
\* the alternates are tried one attempt each in the order of altexts, up
\* to and including the first one the provider serves, and the path that
\* attempt downloaded to is returned
AttemptsFollowAltexts ==
    GetFileDone
    => /\ Len(calls) >= 1
       /\ calls[1].Key = op.filename
       /\ calls[1].Filename = op.local_file
       /\ (~hist.provider_failed =>
             Len(calls) = 1 /\ result = Return(op.local_file))
       /\ (hist.provider_failed /\ ~op.altexts.is_list => Len(calls) = 1)
       /\ (hist.provider_failed /\ op.altexts.is_list =>
             LET exts == op.altexts.exts
                 n == FirstServed(hist.served)
                 tried == IF n = 0 THEN Len(exts) ELSE n
             IN /\ Len(calls) = 1 + tried
                /\ \A j \in 1..tried :
                     calls[1 + j].Key = splitext(op.filename)[1] \o exts[j]
                /\ (n > 0 => result = Return(calls[1 + n].Filename)))

\* C17 as stated: the attempts follow altexts as above, and no key is
\* attempted twice
C17_NoKeyTwice ==
    /\ AttemptsFollowAltexts
    /\ (GetFileDone => KeysDistinct)

\* C17: s3_get_file attempts `filename` first; only if that fails and
\* altexts was given does it attempt the alternates, one attempt each, in
\* the order given, stopping at the first success and returning the path
\* of that alternate; nothing is attempted after a success; and no key is
\* attempted twice when the extensions given differ from each other and
\* from the extension of `filename`.
C17_AlternatesInOrder ==
    /\ AttemptsFollowAltexts
    /\ (/\ GetFileDone
        /\ op.altexts.is_list
        /\ \A i \in 1..Len(op.altexts.exts) :
             /\ op.altexts.exts[i] # splitext(op.filename)[2]
             /\ \A j \in 1..Len(op.altexts.exts) :
                  i # j => op.altexts.exts[i] # op.altexts.exts[j])
       => KeysDistinct

C17_Witness ==
    /\ GetFileDone
    /\ hist.provider_failed
    /\ op.filename = <<"a", ".", "g">>
    /\ op.altexts.is_list
    /\ op.altexts.exts = <<<<>>, <<".", "s">>>>
    /\ hist.served = <<FALSE, TRUE>>
    /\ Len(calls) = 3
    /\ calls[3].Key = <<"a", ".", "s">>
    /\ result = Return(calls[3].Filename)

\* C18: s3_get_file given altexts, when the download of `filename` and of
\* every alternate fails, fails like every other function: None under
\* soft-fail, the failure raised to the caller under raiseonfail = TRUE.
C18_ExhaustedIsNotFound ==
    (/\ GetFileDone
     /\ hist.provider_failed
     /\ op.altexts.is_list
     /\ FirstServed(hist.served) = 0)
    => IF op.raiseonfail THEN result.kind = "raise"
       ELSE result = ReturnNone

\* C19: a make_ec2_nodes(wait_until_up=True) call that returns an instance
\* mapping returns it only when every launched instance was seen running:
\* every instance of the returned mapping has state 'running'.
C19_ReturnedNodesAreRunning ==
    (/\ Launching
     /\ op.wait_until_up
     /\ pc = "done"
     /\ result.kind = "return"
     /\ ~result.none)
    => \A i \in DOMAIN result.val : result.val[i].state = "running"

\* C20: whatever the provider reports, the wait loop of make_ec2_nodes
\* runs at most one iteration past its cap of 5 tries: at most 6 status
\* polls.
C20_AtMostOnePollPastCap ==
    Launching => NPolls <= ntries_ec2 + 1

\* C21: make_spot_fleet_cluster(wait_until_up=False) whose submission
\* succeeded has returned the request id after exactly one provider call,
\* the request_spot_fleet: no status poll and no sleep.
C21_NoWaitReturnsAtOnce ==
    (/\ RequestingFleet
     /\ ~op.wait_until_up
     /\ hist.submitted)
    => /\ pc = "done"
       /\ result = Return(spot_fleet_reqid)
       /\ Len(calls) = 1
       /\ calls[1].method = "request_spot_fleet"
       /\ NFleetPolls = 0
       /\ NSleeps = 0

C21_Witness ==
    /\ RequestingFleet
    /\ ~op.wait_until_up
    /\ hist.submitted
    /\ pc = "done"
    /\ result = Return("sfr-1")
    /\ Len(calls) = 1

\* C22: across the polls of one make_ec2_nodes call the state recorded for
\* an instance in instance_dict never moves from a later state back to an
\* earlier one, in the order pending, running, shutting-down, terminated.
C22_RecordedStateMonotonic ==
    [][\A i \in DOMAIN instance_dict \cap DOMAIN instance_dict' :
         StateRank(instance_dict'[i].state) >=
           StateRank(instance_dict[i].state)]_vars

C22_Witness ==
    /\ Launching
    /\ pc = "ec2_wait"
    /\ NPolls >= 2
    /\ \E i \in DOMAIN instance_dict :
         /\ instance_dict[i].state = "running"
         /\ ec2_provider[i].state = "terminated"

\* a finished make_ec2_nodes or make_spot_fleet_cluster one of whose
\* provider calls raised
ProvisioningFailed ==
    /\ op.name \in {"make_ec2_nodes", "make_spot_fleet_cluster"}
    /\ pc = "done"
    /\ hist.provider_failed

\* C23 as stated: in make_ec2_nodes and make_spot_fleet_cluster the
\* provider's ClientError reaches the caller as something it can tell apart
\* from the None that any other error gives under soft-fail.
C23_RejectionIsTyped ==
    (ProvisioningFailed /\ hist.failure = "ClientError")
    => result # ReturnNone

\* C23: in make_ec2_nodes and make_spot_fleet_cluster the provider's
\* ClientError is handled like any other error: None under soft-fail,
\* the same as for every other failure, and the exception itself re-raised
\* under raiseonfail = TRUE; the caller can tell a ClientError from another
\* error only under raiseonfail = TRUE.
C23_RejectionFollowsPolicy ==
    ProvisioningFailed
    => result = IF op.raiseonfail THEN Raise(hist.failure) ELSE ReturnNone

C23_Witness ==
    /\ ProvisioningFailed
    /\ op.name = "make_spot_fleet_cluster"
    /\ hist.failure = "ClientError"
    /\ ~op.raiseonfail
    /\ result = ReturnNone

\* C24: a make_ec2_nodes call issues exactly one run_instances, as its
\* first provider call, with MinCount and MaxCount both equal to
\* launch_instances; and a call whose run_instances failed (it raised, or
\* answered nothing) has ended without any status poll.
C24_OneBatchLaunch ==
    Launching
    => /\ CountCalls("run_instances") = 1
       /\ calls[1].method = "run_instances"
       /\ calls[1].MinCount = op.launch_instances
       /\ calls[1].MaxCount = op.launch_instances
       /\ (~hist.submitted => pc = "done" /\ NPolls = 0 /\ Len(calls) = 1)

C24_Witness ==
    /\ Launching
    /\ pc = "done"
    /\ op.wait_until_up
    /\ op.launch_instances = 2
    /\ hist.provider_failed
    /\ ~hist.submitted
    /\ calls = <<RunInstancesRequest(op)>>
    /\ calls[1].MinCount = 2

Base64Chars == {B64Alphabet[i] : i \in 1..64} \cup {"="}

\* C26: for the same user-data input (a script text, the contents of a
\* script file, or None, which gives the default stub) make_ec2_nodes
\* sends the script as it is, and make_spot_fleet_cluster sends, in every
\* launch spec, base64 text that decodes to that script.
C26_UserDataEncodings ==
    /\ Launching
       => calls[1].UserData = SuppliedText(op.user_data, op.utcnow)
    /\ (RequestingFleet /\ Len(calls) >= 1)
       => LET specs == calls[1].SpotFleetRequestConfig.LaunchSpecifications
              text == SuppliedText(op.instance_user_data, op.utcnow)
          IN \A i \in 1..Len(specs) :
               /\ specs[i].UserData # text
               /\ \A j \in 1..Len(specs[i].UserData) :
                    specs[i].UserData[j] \in Base64Chars
               /\ Len(specs[i].UserData) = 4 * ((Len(text) + 2) \div 3)
               /\ b64decode(specs[i].UserData) = text

C26_Witness ==
    /\ RequestingFleet
    /\ pc = "done"
    /\ op.instance_user_data = [kind |-> "text", text |-> <<104, 105>>]
    /\ Len(calls) >= 1
    /\ Len(calls[1].SpotFleetRequestConfig.LaunchSpecifications) = 2
    /\ \A i \in 1..2 :
         calls[1].SpotFleetRequestConfig.LaunchSpecifications[i].UserData
           = <<"a", "G", "k", "=">>

\* C27: a worker acknowledges a message only after it has stored the result
\* of that delivery's job, and after it has enqueued the result descriptor
\* when the job names an output queue: every delete_message the worker
\* issues carries the receipt handle of the job it holds, whose result is
\* stored by then; and a message is acknowledged in no other step, so the
\* message of a job that failed before the store stays unacknowledged
C27_AckFollowsStore ==
    [][/\ (pc = "idle" /\ pc' = "done" /\ op'.name = "sqs_delete_item")
          => /\ worker.stage # "idle"
             /\ op'.receipt_handle = worker.job.receipt_handle
             /\ worker.stored
             /\ WantsDescriptor(worker.job) => worker.announced
       /\ acked' # acked
          => /\ pc = "idle"
             /\ pc' = "done"
             /\ op'.name = "sqs_delete_item"]_vars

\* a message has been acknowledged by the worker that stored its result and
\* announced it on the output queue
C27_Witness ==
    /\ service = "worker"
    /\ pc = "done"
    /\ op.name = "sqs_delete_item"
    /\ op.receipt_handle[1] \in acked
    /\ worker.stage = "announced"
    /\ worker.announced
    /\ op.receipt_handle = worker.job.receipt_handle

\* a worker failed before the store and the message of its job is still on
\* the queue, unacknowledged, and is delivered again
C27_FailedJobRedelivered ==
    /\ service = "worker"
    /\ worker.stage = "pulled"
    /\ ~worker.stored
    /\ worker.job.receipt_handle[2] = 2
    /\ acked = {}

\* C28: s3_put_file issues one upload_file of the local file to the bucket
\* under a key that is the last component of the local path: the key holds
\* no "/", it is the end of the path, and what precedes it in the path, if
\* anything, ends with "/".  When the upload succeeds the call returns
\* "s3://" + bucket + "/" + that key, so the directory part of the path is
\* in neither
C28_KeyIsBasename ==
    (pc = "done" /\ op.name = "s3_put_file") =>
      /\ Len(calls) = 1
      /\ LET p == op.local_file
             key == calls[1].Key
             dir == Len(p) - Len(key)
         IN /\ calls[1].method = "upload_file"
            /\ calls[1].Filename = p
            /\ calls[1].Bucket = op.bucket
            /\ \A i \in 1..Len(key) : key[i] # "/"
            /\ dir >= 0
            /\ key = SubSeq(p, dir + 1, Len(p))
            /\ dir > 0 => p[dir] = "/"
            /\ ~hist.provider_failed =>
                 result = Return(<<"s", "3", ":", "/", "/">> \o op.bucket
                                   \o <<"/">> \o key)

\* a file in a directory has been uploaded
C28_Witness ==
    /\ pc = "done"
    /\ op.name = "s3_put_file"
    /\ op.local_file = <<".", "g", "/", "a", ".", "g">>
    /\ calls[1].Key = <<"a", ".", "g">>
    /\ result = Return(<<"s", "3", ":", "/", "/", "b", "/", "a", ".", "g">>)

\* ids of the messages of queue q a consumer can receive
VisibleIds(q) ==
    LET vis == Visible(q)
    IN {q[vis[k]].MessageId : k \in 1..Len(vis)}

\* ids of the messages of queue q whose delay has not elapsed
DelayedIds(q) == {q[i].MessageId : i \in {j \in 1..Len(q) : q[j].delayed}}

\* ids of the messages a call returned
ReturnedIds(r) ==
    IF r.kind = "return" /\ ~r.none
    THEN {r.val[j].id : j \in 1..Len(r.val)}
    ELSE {}

\* C29: a message that sqs_put_item enqueued with delay_seconds > 0 is held
\* back by the queue from the moment it is enqueued; while its delay has
\* not elapsed no sqs_get_item returns it and the queue delivers it to
\* nobody; when the delay elapses the message can be received
C29_DelayPostponesVisibility ==
    [][/\ (pc = "idle" /\ pc' = "done" /\ op'.name = "sqs_put_item"
             /\ next_id' = next_id + 1 /\ op'.delay_seconds > 0)
          => /\ next_id \in DelayedIds(queue')
             /\ next_id \notin VisibleIds(queue')
       /\ \A id \in DelayedIds(queue) :
            /\ (pc = "idle" /\ pc' = "done" /\ op'.name = "sqs_get_item")
                 => id \notin ReturnedIds(result')
            /\ \A i \in 1..Len(queue') :
                 queue'[i].MessageId = id => queue'[i].receives = 0
            /\ (id \in Ids(queue') /\ id \notin DelayedIds(queue'))
                 => id \in VisibleIds(queue')]_vars

\* a pull has come back empty while the only message on the queue was
\* enqueued with a delay that has not elapsed
C29_Witness ==
    /\ pc = "done"
    /\ op.name = "sqs_get_item"
    /\ hist.received
    /\ result = Return(<<>>)
    /\ DelayedIds(queue) # {}
    /\ \E m \in enqueued : m.id \in DelayedIds(queue)

\* C30: under soft-fail (raiseonfail=False), once run_instances has
\* succeeded and the status polls have begun, make_ec2_nodes returns a
\* mapping that holds every launched instance id, whatever the polls do:
\* a describe_instances that raises, or that reports a running instance
\* without a public IP address, does not make the call return None.
C30_PollFailureKeepsLaunchResult ==
    (/\ Launching
     /\ ~op.raiseonfail
     /\ pc = "done"
     /\ NPolls >= 1)
    => /\ result.kind = "return"
       /\ ~result.none
       /\ DOMAIN result.val = DOMAIN ec2_provider

\* the launched instances a status poll of this call has reported running
ObservedRunning ==
    {i \in DOMAIN instance_dict : instance_dict[i].state = "running"}

\* C31: the wait loop of make_ec2_nodes counts a launched instance as ready
\* at most once: at every point of the loop len(ready_instances) is the
\* number of distinct launched instances observed running, so the loop's
\* exit test (and the final all-up check) finds all instances ready only
\* when every launched instance has been observed running.
C31_ReadyCountsDistinctInstances ==
    (Launching /\ op.wait_until_up /\ pc \in {"ec2_wait", "done"})
    => /\ Len(ready_instances) = Cardinality(ObservedRunning)
       /\ Len(ready_instances) = Cardinality(DOMAIN instance_dict)
            => ObservedRunning = DOMAIN instance_dict

\* C32: make_spot_fleet_cluster called with raiseonfail=False raises for no
\* input: every call ends by returning; and a call whose instance_weights
\* list is shorter than its instance_types list returns None without
\* having sent a request_spot_fleet.
C32_SoftFailFleetNeverRaises ==
    (RequestingFleet /\ ~op.raiseonfail /\ pc = "done")
    => /\ result.kind = "return"
       /\ (/\ op.instance_weights.is_list
           /\ Len(op.instance_weights.w) < Len(op.instance_types))
          => result = ReturnNone /\ calls = <<>>

\* C33: launch specs do not accumulate across calls of
\* make_spot_fleet_cluster: whatever calls came before, the configuration
\* a call submits holds exactly one launch spec per entry of that call's
\* instance_types, and SPOT_FLEET_CONFIG keeps its initial value, its
\* LaunchSpecifications list empty.
C33_LaunchSpecsDoNotAccumulate ==
    /\ SPOT_FLEET_CONFIG = SPOT_FLEET_CONFIG_0
    /\ SPOT_FLEET_CONFIG.LaunchSpecifications = <<>>
    /\ (RequestingFleet /\ calls # <<>>)
       => /\ calls[1].method = "request_spot_fleet"
          /\ Len(calls[1].SpotFleetRequestConfig.LaunchSpecifications)
               = Len(op.instance_types)

\* a call with no instance type has submitted its configuration after an
\* earlier call submitted launch specs (the nested template objects still
\* hold what the earlier call wrote)
C33_Witness ==
    /\ RequestingFleet
    /\ pc = "done"
    /\ op.instance_types = <<>>
    /\ calls # <<>>
    /\ calls[1].SpotFleetRequestConfig.LaunchSpecifications = <<>>
    /\ heap # heap_0

\* C34: the mapping make_ec2_nodes returns has one entry per instance of
\* the run_instances response, no more and no fewer.  An entry changes
\* only in a status poll that reports its instance running: it is then
\* marked 'running', and gets an ip only when the report carries one; an
\* instance no poll reported running keeps the entry built from the launch
\* response.
C34_RunningOnlyIfReported ==
    /\ [](( /\ Launching
            /\ pc = "done"
            /\ result.kind = "return"
            /\ ~result.none)
          => /\ DOMAIN result.val = DOMAIN ec2_provider
             /\ result.val = instance_dict
             /\ \A i \in DOMAIN result.val :
                  \/ result.val[i] = LaunchedDict({i})[i]
                  \/ /\ result.val[i].state = "running"
                     /\ StateRank(ec2_provider[i].state)
                          >= StateRank("running"))
    /\ [][\A i \in DOMAIN instance_dict' :
            \/ /\ i \in DOMAIN instance_dict
               /\ instance_dict'[i] = instance_dict[i]
            \/ /\ pc = "idle"
               /\ instance_dict'[i] = LaunchedDict({i})[i]
            \/ /\ pc = "ec2_wait"
               /\ i \in DOMAIN instance_dict
               /\ ec2_provider'[i].state = "running"
               /\ instance_dict'[i].state = "running"
               /\ instance_dict'[i].ip # instance_dict[i].ip
                    => ec2_provider'[i].has_ip]_vars

\* a call has returned a mapping in which one instance is running, with
\* its ip, and the other, never reported running, is as launched
C34_Witness ==
    /\ Launching
    /\ op.wait_until_up
    /\ pc = "done"
    /\ result.kind = "return"
    /\ ~result.none
    /\ DOMAIN result.val = {1, 2}
    /\ result.val[1].state = "running"
    /\ result.val[1].ip = 1
    /\ result.val[2] = LaunchedDict({2})[2]
    /\ ec2_provider[2].state = "pending"

\* ids of the messages sqs_put_item has put on the queue
EnqueuedIds == {m.id : m \in enqueued}

EndsWith(s, t) ==
    /\ Len(t) <= Len(s)
    /\ SubSeq(s, Len(s) - Len(t) + 1, Len(s)) = t

\* C36: when s3_get_file succeeds through an alternate extension, the path
\* it downloads to and returns is local_file with its trailing extension
\* (the extension of the key, where local_file ends with it; nothing, for a
\* key without extension) replaced by that alternate extension, the rest
\* of local_file, its directory part included, being kept as it is.
C36_OnlyTrailingExtensionReplaced ==
    (/\ GetFileDone
     /\ hist.provider_failed
     /\ op.altexts.is_list
     /\ FirstServed(hist.served) > 0
     /\ EndsWith(op.local_file, splitext(op.filename)[2]))
    => LET alt == op.altexts.exts[FirstServed(hist.served)]
           ext == splitext(op.filename)[2]
           expected == SubSeq(op.local_file, 1,
                              Len(op.local_file) - Len(ext)) \o alt
       IN /\ result = Return(expected)
          /\ calls[Len(calls)].Filename = expected

\* the calling thread is never suspended for ever: a call that is waiting
\* takes its next step
FairSpecFleet == SpecFleet /\ WF_vars(fleet_poll) /\ WF_vars(fleet_return)

\* the number of visible messages up to and including the one with
\* this id; 0 if that message cannot be received
RankOf(id) ==
    LET vis == Visible(queue)
        at == {j \in 1..Len(vis) : queue[vis[j]].MessageId = id}
    IN IF at = {} THEN 0 ELSE CHOOSE j \in at : TRUE

\* a call sqs_get_item(queue_url, max_items=MaxItems) whose response is
\* intact and that delivers the visible messages up to the one with this id
Deliver(id) ==
    /\ RankOf(id) \in 1..MaxItems
    /\ GetItemReceives([name |-> "sqs_get_item", queue_url |-> QueueUrl,
                        max_items |-> MaxItems, wait_time_seconds |-> 5,
                        raiseonfail |-> FALSE],
                       RankOf(id), Faults(0))

\* can a call sqs_get_item(queue_url, max_items=MaxItems) deliver the
\* message with this id?  (the states in which Deliver(id) is enabled)
Deliverable(id) ==
    /\ pc = "idle"
    /\ service = "sqs"
    /\ queue_exists
    /\ \A i \in 1..Len(queue) : queue[i].receives < MaxReceives
    /\ RankOf(id) \in 1..MaxItems

\* the queue functions, the producers enqueuing jobs under soft-fail: what
\* a job's args hold and how a failed enqueue is reported make no
\* difference to the deliveries
NextSQSJobs ==
    \/ sqs_create_queue
    \/ sqs_delete_queue
    \/ /\ sqs_put_item
       /\ op'.item.args = PyList(<<>>)
       /\ ~op'.raiseonfail
    \/ sqs_get_item
    \/ sqs_delete_item
    \/ foreign_send
    \/ delay_elapsed
    \/ visibility_timeout
    \/ finish

\* every call returns; time passes whatever the callers do, so a delay or
\* a visibility window that is seen open between calls again and again
\* elapses; and workers keep pulling: a message that can be delivered
\* again and again is delivered
FairSpecSQS ==
    /\ InitSQS
    /\ [][NextSQSJobs]_vars
    /\ WF_vars(finish)
    /\ SF_vars(delay_elapsed)
    /\ SF_vars(visibility_timeout)
    /\ \A id \in 1..MaxSends :
         []<>Deliverable(id) => []<><<Deliver(id)>>_vars

\* a pull by the worker that is answered, intact, with the message id
WorkerDeliver(id) ==
    /\ service = "worker"
    /\ worker.stage = "idle"
    /\ RankOf(id) = 1
    /\ GetItemReceives([name |-> "sqs_get_item", queue_url |-> QueueUrl,
                        max_items |-> 1, wait_time_seconds |-> 5,
                        raiseonfail |-> FALSE],
                       1, Faults(0))

\* the states in which WorkerDeliver(id) is enabled
WorkerDeliverable(id) ==
    /\ pc = "idle"
    /\ service = "worker"
    /\ worker.stage = "idle"
    /\ queue_exists
    /\ \A i \in 1..Len(queue) : queue[i].receives < MaxReceives
    /\ RankOf(id) = 1

\* the worker is about to call a function for the job it holds
WorkerAt(stage) ==
    /\ pc = "idle"
    /\ service = "worker"
    /\ worker.stage = stage

\* the call the worker made for its job went through
WorkerCallSucceeds ==
    /\ pc = "idle"
    /\ pc' = "done"
    /\ worker.stage # "idle"
    /\ \/ op'.name \in {"s3_put_file", "sqs_put_item"}
          /\ result'.kind = "return"
          /\ ~result'.none
       \/ op'.name = "sqs_delete_item"
          /\ worker.job.id \in acked'

\* the worker runs: it keeps polling, looks at what each call returned
\* and goes on with the job it holds.  Time passes: a delay or a visibility
\* window seen open again and again elapses.  The queue answers: a message
\* that can be delivered to the worker again and again is delivered.  The
\* worker and the services may fail at any point, but not for ever: a
\* step of the job that is tried again and again goes through
FairSpecWorker ==
    /\ SpecWorker
    /\ WF_vars(worker_finish)
    /\ WF_vars(worker_take)
    /\ WF_vars(worker_stored)
    /\ WF_vars(worker_acked)
    /\ SF_vars(delay_elapsed)
    /\ SF_vars(visibility_timeout)
    /\ \A id \in 1..MaxSends :
         []<>WorkerDeliverable(id) => []<><<WorkerDeliver(id)>>_vars
    /\ \A stage \in {"pulled", "stored", "announced"} :
         []<>WorkerAt(stage) => []<><<WorkerAt(stage) /\ WorkerCallSucceeds>>_vars

\* Deliverable(id) is the enabling condition of Deliver(id)
DeliverableIsEnabled ==
    \A id \in 1..MaxSends : Deliverable(id) <=> ENABLED <<Deliver(id)>>_vars

=============================================================================
